---- MODULE Spec2Model ----
(***************************************************************************)
(* Model of the print-audit pipeline of printer_audit.py: the fetch-decrypt *)
(* stage (run_sync_decrypt and its helpers) with its persisted progress     *)
(* records, and the remote stability detector (wait_for_remote_stable).     *)
(*                                                                          *)
(* File names are sequences of one-character strings, so that the text      *)
(* round trip of the history files (append_history writes a line,           *)
(* load_history_set reads it back through str.strip) is computed and not    *)
(* assumed.                                                                 *)
(***************************************************************************)
EXTENDS Integers, Sequences, FiniteSets, TLC

\* ------------------------------------------------------------------ bounds

\* How many times run_sync_decrypt is started in one behaviour.
MaxRuns == 2

\* The largest --stability-max-rounds a call of wait_for_remote_stable is given
\* (0 is "no limit").
MaxRoundsArg == 2

\* Where the model stops a wait that has no limit of its own.
RoundCap == 3

\* How many times merge_groups is called in one behaviour.
MaxMerges == 2

\* How many reads of a part file fail in one behaviour.
MaxReadFailures == 1

\* ------------------------------------------------------------------ names

\* Characters str.strip() removes (the one the name universe uses).
Whitespace == {" ", "\t", "\r", "\n"}

\* The remote file names of the model: a plain name and one with a leading
\* blank.
Names == { <<"a">>, <<" ", "a">> }

\* "no item" (not a file name: directory entries are never empty).
NoName == << >>

RECURSIVE lstrip(_)
lstrip(s) ==
    IF s = << >> THEN << >>
    ELSE IF Head(s) \in Whitespace THEN lstrip(Tail(s)) ELSE s

RECURSIVE rstrip(_)
rstrip(s) ==
    IF s = << >> THEN << >>
    ELSE IF s[Len(s)] \in Whitespace THEN rstrip(SubSeq(s, 1, Len(s) - 1)) ELSE s

\* str.strip(): leading and trailing whitespace removed.
strip(s) == rstrip(lstrip(s))

\* ------------------------------------------------------------------ values

\* The (mtime, size) pairs a remote item can have.
MetaVals == { [mtime |-> 1, size |-> 1], [mtime |-> 2, size |-> 2] }

\* The empty map / the empty listing.
EmptyMap == [n \in {} |-> [mtime |-> 0, size |-> 0]]

\* A local file is "none" (absent), "part" (truncated by an interrupted or
\* failed write) or "full".

\* What the Fernet key of a run can be: rejected by Fernet(key), accepted but
\* not the key the items were encrypted with, or the right key.
Keys == {"invalid", "wrong", "right"}

\* dict[k] = v on a map.
Upsert(f, k, v) == [x \in (DOMAIN f) \cup {k} |-> IF x = k THEN v ELSE f[x]]

\* ------------------------------------------------------------------ state

VARIABLES
    \* the environment
    remote,          \* the remote directory: name -> (mtime, size)
    \* the local state directory
    dlDir,           \* download dir: name -> FileStates
    decDir,          \* decrypt dir:  name -> FileStates
    histDl,          \* downloaded_files.txt: the set of its lines
    histDec,         \* decrypted_files.txt:  the set of its lines
    metaFile,        \* remote_file_meta.json: name -> (mtime, size)
    metaTmp,         \* remote_file_meta.json.tmp exists
    \* the running process (run_sync_decrypt's locals)
    pc,              \* where the run is
    key,             \* the key of this run
    downloaded_set,
    decrypted_set,
    remote_meta,
    current_files,   \* the listing wait_for_remote_stable returned
    todo,            \* names of current_files the loop has not reached
    cur,             \* the item the loop is at
    \* bookkeeping of what the runs did (read by the properties only)
    runs,            \* runs started so far
    calls,           \* this run's sftp.get and cipher.decrypt calls, by name,
                     \* and those of them that failed
    start,           \* the local state directory as this run found it
    prev,            \* how the previous run ended (and the decryptions that
                     \* failed in it, with its key), while nothing changed since
    \* wait_for_remote_stable, run on its own
    wpc,             \* where the call is
    max_rounds,      \* its argument
    rounds,
    snap1,           \* (count1, size1)
    snap2,           \* (count2, size2)
    result,          \* the list it returns
    \* the merge step
    src_dir,         \* the decrypted directory merge_groups reads: name -> bytes
    dst_dir,         \* the merge output directory: name -> bytes
    mpc,             \* where merge_groups is
    mtime_policy,    \* its argument: "max" or "min"
    groups,          \* group key -> list of MergePart (seq, name)
    final_path,      \* the output name chosen for the group being merged
    outputs,         \* the list it returns
    merges,          \* calls of merge_groups so far
    unread,          \* the parts this call could not read (properties only)
    failures,        \* reads of a part that have failed so far
    \* group_decrypted_parts, applied on its own
    listdir,         \* os.listdir(src_dir), in the order it came
    \* the conversion of the merged artifacts
    converted_dir,   \* the converted directory: name -> size
    cpc,             \* where main's conversion loop and try_convert_stream are
    conv_tool,       \* args.convert_tool
    out_format,      \* args.convert_format
    conv_todo,       \* the paths of `merged` the loop has not finished
    attempts,        \* the candidates try_convert_stream has not finished
    invoked,         \* the candidates whose process this call has run, in order
    exits,           \* how each of them exited: its status, what it wrote
                     \* at the expected path, and whether a non-empty output
                     \* was there then (properties only)
    conv_result,     \* what try_convert_stream returns
    results,         \* this process's conversions: path -> result (properties only)
    \* the run command
    aborts,          \* run commands that ended at start-up (properties only)
    \* a second merge_groups running at the same time
    peer,            \* the locals of the invocation that is not running now
    \* simaudit.py: PrinterAuditSync
    sim_remote,          \* the server's directory: name -> mtime
    local_download_path, \* the files downloaded: name -> the mtime fetched
    decrypt_temp_path,   \* the decrypted and merged files: name -> bytes
    sync_record_file,    \* sync_record.json: name -> record
    fernet_key,          \* the key of config.json
    sim_pc,              \* where run() is
    sync_records,        \* self.sync_records
    remote_files,        \* the listed names sync_from_server has not reached
    new_files,
    dec_todo,            \* the names decrypt_files has not reached
    decrypted_files,
    merged_files,
    sim_crashes          \* processes killed so far

envVars  == <<remote>>
diskVars == <<dlDir, decDir, histDl, histDec, metaFile, metaTmp>>
procVars == <<pc, key, downloaded_set, decrypted_set, remote_meta,
              current_files, todo, cur>>
bookVars == <<runs, calls, start, prev>>
waitVars == <<wpc, max_rounds, rounds, snap1, snap2, result>>
syncVars == <<diskVars, procVars, bookVars>>
mergeVars == <<src_dir, dst_dir, mpc, mtime_policy, groups, final_path,
               outputs, merges, unread, failures>>
groupVars == <<listdir>>
convVars == <<converted_dir, cpc, conv_tool, out_format, conv_todo, attempts,
              invoked, exits, conv_result, results>>
runVars  == <<aborts>>
peerVars == <<peer>>
simVars  == <<sim_remote, local_download_path, decrypt_temp_path,
              sync_record_file, fernet_key, sim_pc, sync_records, remote_files,
              new_files, dec_todo, decrypted_files, merged_files, sim_crashes>>
vars     == <<envVars, diskVars, procVars, bookVars, waitVars, mergeVars,
              groupVars, convVars, runVars, peerVars, simVars>>

NoCalls == [fetch |-> {}, decrypt |-> {}, xfail |-> {}, dfail |-> {}]
NoPrev  == [end |-> "none", inflight |-> NoName, stage |-> "none",
            dfail |-> {}, key |-> "none"]

\* The local state directory, as one value.
Disk == [dlDir |-> dlDir, decDir |-> decDir, histDl |-> histDl,
         histDec |-> histDec, metaFile |-> metaFile]
NoDisk == [dlDir |-> [n \in Names |-> "none"], decDir |-> [n \in Names |-> "none"],
           histDl |-> {}, histDec |-> {}, metaFile |-> EmptyMap]

\* ------------------------------------------------------------------ helpers

\* load_history_set: the set of the stripped, non-empty lines of the file
\* (a missing file has none).
load_history_set(file) ==
    { strip(line) : line \in file } \ { << >> }

\* append_history: one more line at the end of the file.
append_history(file, filename) == file \cup {filename}

\* load_remote_meta starting every run from an empty dict.
load_remote_meta_Empty(file) == EmptyMap

\* load_remote_meta: the JSON document as a dict (a missing file is {}).
load_remote_meta(file) == file

\* update_remote_meta that keeps an entry it already has (dict.setdefault).
update_remote_meta_KeepOld(meta, filename, mtime, size) ==
    IF filename \in DOMAIN meta THEN meta
    ELSE Upsert(meta, filename, [mtime |-> mtime, size |-> size])

\* update_remote_meta: meta[filename] = {"mtime": mtime, "size": size}.
update_remote_meta(meta, filename, mtime, size) ==
    Upsert(meta, filename, [mtime |-> mtime, size |-> size])

\* A snapshot not taken yet.
NoSnap == <<-1, -1>>

\* sum(f.st_size for f in file_list)
RECURSIVE TotalSize(_)
TotalSize(files) ==
    IF DOMAIN files = {} THEN 0
    ELSE LET n == CHOOSE x \in DOMAIN files : TRUE
         IN  files[n].size + TotalSize([x \in (DOMAIN files) \ {n} |-> files[x]])

\* get_remote_file_list: the remote directory, or [] when listdir_attr raises.
get_remote_file_list == {remote, EmptyMap}

\* get_remote_status: (len(file_list), total_size) of one listing.
get_remote_status(file_list) ==
    <<Cardinality(DOMAIN file_list), TotalSize(file_list)>>

\* The locals of a merge_groups that has not been called.
NoPeer == [mpc |-> "idle", mtime_policy |-> "max", groups |-> << >>,
           final_path |-> << >>, outputs |-> << >>, unread |-> {},
           remote_meta |-> EmptyMap]

\* simaudit.py: the names on the server, the first two subtasks of job 1 of
\* printer wp1; the mtimes a file can have, 2024-01-01T23:30:00Z and
\* 2024-12-31T16:00:00Z; the fernet_key of config.json, which Fernet accepts
\* or not, and which is the key the files were encrypted with or not.
SimNames ==
    { <<"w", "p", "1", "_", "c", "t", "r", "l", "_", "_", "j", "o", "b", "1", "_", "1", "-", "p">>,
      <<"w", "p", "1", "_", "c", "t", "r", "l", "_", "_", "j", "o", "b", "1", "_", "2", "-", "p">> }
SimMtimes == <<1704151800, 1735660800>>
SimKeys == {"invalid", "wrong", "right"}

\* The decrypted directory the merge runs start from: a stray file with the
\* name of a merge output, h-j-1, and the one part of the group h-k-1, each
\* with bytes of its own.
FilesAtStart ==
    [n \in { <<"h", "-", "j", "-", "1">>,
             <<"1", "h", "_", "c", "t", "r", "l", "_", "k", "_", "1", "-", "1">> }
        |-> IF Len(n) = 5 THEN <<0, 5>> ELSE <<1, 13>>]

\* ------------------------------------------------------------------ Init

Init ==
    /\ remote \in UNION { [S -> {[mtime |-> 1, size |-> 1]}] : S \in SUBSET Names }
    /\ dlDir = [n \in Names |-> "none"]
    /\ decDir = [n \in Names |-> "none"]
    /\ histDl = {}
    /\ histDec = {}
    /\ metaFile = EmptyMap
    /\ metaTmp = FALSE
    /\ pc = "idle"
    /\ key = "right"
    /\ downloaded_set = {}
    /\ decrypted_set = {}
    /\ remote_meta = EmptyMap
    /\ current_files = EmptyMap
    /\ todo = {}
    /\ cur = NoName
    /\ runs = 0
    /\ calls = NoCalls
    /\ start = NoDisk
    /\ prev = NoPrev
    /\ wpc = "call"
    /\ max_rounds = 0
    /\ rounds = 0
    /\ snap1 = NoSnap
    /\ snap2 = NoSnap
    /\ result = EmptyMap
    /\ src_dir = FilesAtStart
    /\ dst_dir = << >>
    /\ mpc = "idle"
    /\ mtime_policy = "max"
    /\ groups = << >>
    /\ final_path = << >>
    /\ outputs = << >>
    /\ merges = 0
    /\ unread = {}
    /\ failures = 0
    /\ listdir = << >>
    /\ converted_dir = << >>
    /\ cpc = "idle"
    /\ conv_tool = "auto"
    /\ out_format = "pdf"
    /\ conv_todo = << >>
    /\ attempts = << >>
    /\ invoked = << >>
    /\ exits = << >>
    /\ conv_result = "none"
    /\ results = << >>
    /\ aborts = 0
    /\ peer = NoPeer
    /\ sim_remote = << >>
    /\ local_download_path = << >>
    /\ decrypt_temp_path = << >>
    /\ sync_record_file = << >>
    /\ fernet_key = "wrong"
    /\ sim_pc = "idle"
    /\ sync_records = << >>
    /\ remote_files = {}
    /\ new_files = << >>
    /\ dec_todo = << >>
    /\ decrypted_files = << >>
    /\ merged_files = << >>
    /\ sim_crashes = 0

\* ------------------------------------------------------------------ process

\* The process is gone: its locals with it.
ProcExit ==
    /\ pc' = "idle"
    /\ key' = "right"
    /\ downloaded_set' = {}
    /\ decrypted_set' = {}
    /\ remote_meta' = EmptyMap
    /\ current_files' = EmptyMap
    /\ todo' = {}
    /\ cur' = NoName
    /\ calls' = NoCalls
    /\ start' = NoDisk

\* download_if_needed trusting the record without looking for the file.
DownloadRecorded_RecordOnly(filename) ==
    filename \in downloaded_set

\* download_if_needed skipping only while the listed (mtime, size) is the one
\* on file.
DownloadRecorded_UnlessChanged(filename) ==
    /\ filename \in downloaded_set /\ dlDir[filename] # "none"
    /\ filename \in DOMAIN start.metaFile
    /\ start.metaFile[filename] = current_files[filename]

\* download_if_needed's first test: recorded and the local file exists.
DownloadRecorded(filename) ==
    filename \in downloaded_set /\ dlDir[filename] # "none"

\* decrypt_if_needed's first test: recorded and the target file exists.
DecryptRecorded(filename) ==
    filename \in decrypted_set /\ decDir[filename] # "none"

\* cipher.decrypt succeeds: the right key on the whole ciphertext (a truncated
\* download is no valid Fernet token).
Decryptable(filename) ==
    key = "right" /\ dlDir[filename] = "full"

\* Fernet(key) raising, the error logged and the run going on with the key
\* it has (the raise of line 578 left out).
BadKey_GoesOn ==
    /\ pc = "idle" /\ runs < MaxRuns
    /\ key' = "wrong"
    /\ downloaded_set' = load_history_set(histDl)
    /\ decrypted_set' = load_history_set(histDec)
    /\ remote_meta' = load_remote_meta(metaFile)
    /\ pc' = "wait"
    /\ runs' = runs + 1
    /\ start' = Disk
    /\ UNCHANGED <<envVars, diskVars, current_files, todo, cur, calls, prev>>

\* run_sync_decrypt, lines 567-578, when Fernet(key) raises: SystemExit(2).
BadKey ==
    /\ pc = "idle" /\ runs < MaxRuns
    /\ runs' = runs + 1
    /\ UNCHANGED <<envVars, diskVars, procVars, calls, start, prev>>

\* run_sync_decrypt, lines 580-598, when ssh.connect raises: the records are
\* loaded, the exception leaves through the finally block, nothing is saved.
ConnectFail ==
    /\ pc = "idle" /\ runs < MaxRuns
    /\ runs' = runs + 1
    /\ UNCHANGED <<envVars, diskVars, procVars, calls, start, prev>>

\* run_sync_decrypt, lines 567-598: the key is accepted, the records are
\* loaded and the connection is up.
StartRun ==
    /\ pc = "idle" /\ runs < MaxRuns
    /\ \E k \in Keys \ {"invalid"} : key' = k
    /\ downloaded_set' = load_history_set(histDl)
    /\ decrypted_set' = load_history_set(histDec)
    /\ remote_meta' = load_remote_meta(metaFile)
    /\ pc' = "wait"
    /\ runs' = runs + 1
    /\ start' = Disk
    /\ UNCHANGED <<envVars, diskVars, current_files, todo, cur, calls, prev>>

\* wait_for_remote_stable as run_sync_decrypt sees it: whichever way it
\* leaves its loop, what it returns is one more get_remote_file_list, which
\* is the remote directory of that moment, or [] when the listing fails.
WaitReturn ==
    /\ pc = "wait"
    /\ \E files \in get_remote_file_list :
          /\ current_files' = files
          /\ todo' = DOMAIN files
    /\ pc' = "loop"
    /\ UNCHANGED <<envVars, diskVars, key, downloaded_set, decrypted_set,
                   remote_meta, cur, runs, calls, start, prev>>

\* The loop head going over the remote directory as it is now, not over the
\* list wait_for_remote_stable returned.
NextItem_FromRemote ==
    /\ pc = "loop"
    /\ \E filename \in todo \cup ((DOMAIN remote) \ DOMAIN current_files) :
          /\ cur' = filename
          /\ todo' = todo \ {filename}
          /\ remote_meta' = update_remote_meta(remote_meta, filename,
                               remote[filename].mtime, remote[filename].size)
    /\ pc' = "dl"
    /\ UNCHANGED <<envVars, diskVars, key, downloaded_set, decrypted_set,
                   current_files, bookVars>>

\* The loop head, lines 608-611: the next item, and its metadata upserted.
NextItem ==
    /\ pc = "loop"
    /\ \E filename \in todo :
          /\ cur' = filename
          /\ todo' = todo \ {filename}
          /\ remote_meta' = update_remote_meta(remote_meta, filename,
                               current_files[filename].mtime,
                               current_files[filename].size)
    /\ pc' = "dl"
    /\ UNCHANGED <<envVars, diskVars, key, downloaded_set, decrypted_set,
                   current_files, bookVars>>

\* download_if_needed, lines 207-211: skipped.
DownloadSkip ==
    /\ pc = "dl"
    /\ DownloadRecorded(cur)
    /\ pc' = "dec"
    /\ UNCHANGED <<envVars, diskVars, key, downloaded_set, decrypted_set,
                   remote_meta, current_files, todo, cur, bookVars>>

\* download_if_needed, line 218: sftp.get succeeds, the local file is whole.
SftpGetOk ==
    /\ pc = "dl"
    /\ ~DownloadRecorded(cur)
    /\ cur \in DOMAIN remote
    /\ dlDir' = [dlDir EXCEPT ![cur] = "full"]
    /\ calls' = [calls EXCEPT !.fetch = @ \cup {cur}]
    /\ pc' = "dl_rec"
    /\ UNCHANGED <<envVars, decDir, histDl, histDec, metaFile, metaTmp, key,
                   downloaded_set, decrypted_set, remote_meta, current_files,
                   todo, cur, runs, start, prev>>

\* A failed sftp.get after which the loop goes on to decrypt_if_needed (the
\* `continue` of line 622 left out).
SftpGetFail_NoContinue ==
    /\ pc = "dl"
    /\ ~DownloadRecorded(cur)
    /\ \E f \in {dlDir[cur], "part"} : dlDir' = [dlDir EXCEPT ![cur] = f]
    /\ calls' = [calls EXCEPT !.fetch = @ \cup {cur}, !.xfail = @ \cup {cur}]
    /\ pc' = "dec"
    /\ UNCHANGED <<envVars, decDir, histDl, histDec, metaFile, metaTmp, key,
                   downloaded_set, decrypted_set, remote_meta, current_files,
                   todo, cur, runs, start, prev>>

\* A failed sftp.get that is recorded all the same (append_history and
\* downloaded_set.add moved out of the try block).
SftpGetFail_Records ==
    /\ pc = "dl"
    /\ ~DownloadRecorded(cur)
    /\ \E f \in {dlDir[cur], "part"} : dlDir' = [dlDir EXCEPT ![cur] = f]
    /\ histDl' = append_history(histDl, cur)
    /\ downloaded_set' = downloaded_set \cup {cur}
    /\ calls' = [calls EXCEPT !.fetch = @ \cup {cur}, !.xfail = @ \cup {cur}]
    /\ pc' = "loop"
    /\ UNCHANGED <<envVars, decDir, histDec, metaFile, metaTmp, key,
                   decrypted_set, remote_meta, current_files, todo, cur, runs,
                   start, prev>>

\* A failed sftp.get that ends the loop over the listing (the exception let
\* out of download_if_needed and caught around the loop).
SftpGetFail_EndsLoop ==
    /\ pc = "dl"
    /\ ~DownloadRecorded(cur)
    /\ \E f \in {dlDir[cur], "part"} : dlDir' = [dlDir EXCEPT ![cur] = f]
    /\ calls' = [calls EXCEPT !.fetch = @ \cup {cur}, !.xfail = @ \cup {cur}]
    /\ todo' = {}
    /\ pc' = "loop"
    /\ UNCHANGED <<envVars, decDir, histDl, histDec, metaFile, metaTmp, key,
                   downloaded_set, decrypted_set, remote_meta, current_files,
                   cur, runs, start, prev>>

\* download_if_needed, lines 223-225: sftp.get raises. The local file is as
\* it was, or truncated where the transfer had opened it. Returns False: the
\* loop continues with the next item.
SftpGetFail ==
    /\ pc = "dl"
    /\ ~DownloadRecorded(cur)
    /\ \E f \in {dlDir[cur], "part"} : dlDir' = [dlDir EXCEPT ![cur] = f]
    /\ calls' = [calls EXCEPT !.fetch = @ \cup {cur}, !.xfail = @ \cup {cur}]
    /\ pc' = "loop"
    /\ UNCHANGED <<envVars, decDir, histDl, histDec, metaFile, metaTmp, key,
                   downloaded_set, decrypted_set, remote_meta, current_files,
                   todo, cur, runs, start, prev>>

\* download_if_needed, lines 219-222: the record, after the transfer.
RecordDownload ==
    /\ pc = "dl_rec"
    /\ histDl' = append_history(histDl, cur)
    /\ downloaded_set' = downloaded_set \cup {cur}
    /\ pc' = "dec"
    /\ UNCHANGED <<envVars, dlDir, decDir, histDec, metaFile, metaTmp, key,
                   decrypted_set, remote_meta, current_files, todo, cur,
                   bookVars>>

\* decrypt_if_needed, lines 237-241: skipped.
DecryptSkip ==
    /\ pc = "dec"
    /\ DecryptRecorded(cur)
    /\ pc' = "loop"
    /\ UNCHANGED <<envVars, diskVars, key, downloaded_set, decrypted_set,
                   remote_meta, current_files, todo, cur, bookVars>>

\* decrypt_if_needed, lines 246-251: read, decrypt, write the target file.
DecryptOk ==
    /\ pc = "dec"
    /\ ~DecryptRecorded(cur)
    /\ Decryptable(cur)
    /\ decDir' = [decDir EXCEPT ![cur] = "full"]
    /\ calls' = [calls EXCEPT !.decrypt = @ \cup {cur}]
    /\ pc' = "dec_rec"
    /\ UNCHANGED <<envVars, dlDir, histDl, histDec, metaFile, metaTmp, key,
                   downloaded_set, decrypted_set, remote_meta, current_files,
                   todo, cur, runs, start, prev>>

\* decrypt_if_needed, lines 257-259: cipher.decrypt raises, before the target
\* file is opened. Returns False.
DecryptFail ==
    /\ pc = "dec"
    /\ ~DecryptRecorded(cur)
    /\ ~Decryptable(cur)
    /\ calls' = [calls EXCEPT !.decrypt = @ \cup {cur}, !.dfail = @ \cup {cur}]
    /\ pc' = "loop"
    /\ UNCHANGED <<envVars, diskVars, key, downloaded_set, decrypted_set,
                   remote_meta, current_files, todo, cur, runs, start, prev>>

\* decrypt_if_needed, lines 253-256: the record, after the target is written.
RecordDecrypt ==
    /\ pc = "dec_rec"
    /\ histDec' = append_history(histDec, cur)
    /\ decrypted_set' = decrypted_set \cup {cur}
    /\ pc' = "loop"
    /\ UNCHANGED <<envVars, dlDir, decDir, histDl, metaFile, metaTmp, key,
                   downloaded_set, remote_meta, current_files, todo, cur,
                   bookVars>>

\* _save_json_atomic, lines 98-100, reached at line 641 once the loop is
\* over: the document is written to the .tmp file.
SaveMetaTmp ==
    /\ pc = "loop"
    /\ todo = {}
    /\ metaTmp' = TRUE
    /\ pc' = "replace"
    /\ UNCHANGED <<envVars, dlDir, decDir, histDl, histDec, metaFile, key,
                   downloaded_set, decrypted_set, remote_meta, current_files,
                   todo, cur, bookVars>>

\* _save_json_atomic, line 101: os.replace; run_sync_decrypt returns.
SaveMetaReplace ==
    /\ pc = "replace"
    /\ metaFile' = remote_meta
    /\ metaTmp' = FALSE
    /\ pc' = "done"
    /\ UNCHANGED <<envVars, dlDir, decDir, histDl, histDec, key,
                   downloaded_set, decrypted_set, remote_meta, current_files,
                   todo, cur, bookVars>>

\* The run had no failed listing, transfer or decryption.
RunClean ==
    current_files = remote /\ calls.xfail = {} /\ calls.dfail = {}

\* main, lines 735-737: the sync command is over and the process ends.
Return ==
    /\ pc = "done"
    /\ prev' = [end |-> IF RunClean THEN "clean" ELSE "failed",
                inflight |-> NoName, stage |-> "none",
                dfail |-> calls.dfail,
                key |-> IF calls.dfail = {} THEN "none" ELSE key]
    /\ ProcExit
    /\ UNCHANGED <<envVars, diskVars, runs>>

\* The process is killed between two steps. Killed inside sftp.get or inside
\* the write of the target file, it may leave that file truncated.
Crash ==
    /\ pc \notin {"idle", "done"}
    /\ \E torn \in BOOLEAN :
          /\ dlDir' = IF torn /\ pc = "dl" /\ ~DownloadRecorded(cur)
                      THEN [dlDir EXCEPT ![cur] = "part"] ELSE dlDir
          /\ decDir' = IF torn /\ pc = "dec" /\ ~DecryptRecorded(cur)
                          /\ Decryptable(cur)
                       THEN [decDir EXCEPT ![cur] = "part"] ELSE decDir
    /\ prev' = [end |-> "crash",
                inflight |-> IF pc \in {"dl_rec", "dec_rec"} THEN cur ELSE NoName,
                stage |-> IF pc \in {"dl_rec", "dec_rec"} THEN pc ELSE "none",
                dfail |-> {}, key |-> "none"]
    /\ ProcExit
    /\ UNCHANGED <<envVars, histDl, histDec, metaFile, metaTmp, runs>>

\* ------------------------------------------------------------------ environment

\* Between two runs a local file is removed (by an operator, a cleanup job).
LoseFile ==
    /\ pc = "idle"
    /\ \E n \in Names :
          \/ /\ dlDir[n] # "none"
             /\ dlDir' = [dlDir EXCEPT ![n] = "none"]
             /\ UNCHANGED decDir
          \/ /\ decDir[n] # "none"
             /\ decDir' = [decDir EXCEPT ![n] = "none"]
             /\ UNCHANGED dlDir
    /\ prev' = NoPrev
    /\ UNCHANGED <<envVars, histDl, histDec, metaFile, metaTmp, procVars, runs,
                   calls, start>>

\* The remote directory changes: an item appears, is rewritten with another
\* (mtime, size), or is removed.
RemoteStep ==
    \E n \in Names :
       \/ \E v \in MetaVals :
             /\ (n \in DOMAIN remote => remote[n] # v)
             /\ remote' = Upsert(remote, n, v)
       \/ /\ n \in DOMAIN remote
          /\ remote' = [x \in (DOMAIN remote) \ {n} |-> remote[x]]

\* Between two runs the remote directory changes. (During a run the loop works
\* on the listing it was handed; a change then shows as a failed transfer.)
RemoteChange ==
    /\ pc = "idle"
    /\ RemoteStep
    /\ prev' = NoPrev
    /\ UNCHANGED <<diskVars, procVars, runs, calls, start>>

SyncNext ==
    \/ BadKey \/ ConnectFail \/ StartRun \/ WaitReturn \/ NextItem
    \/ DownloadSkip \/ SftpGetOk \/ SftpGetFail \/ RecordDownload
    \/ DecryptSkip \/ DecryptOk \/ DecryptFail \/ RecordDecrypt
    \/ SaveMetaTmp \/ SaveMetaReplace \/ Return \/ Crash
    \/ LoseFile \/ RemoteChange

Next ==
    SyncNext /\ UNCHANGED <<waitVars, mergeVars, groupVars, convVars, runVars,
                           peerVars, simVars>>

\* The fetch-decrypt stage over its persisted records, run after run.
Spec == Init /\ [][Next]_vars

\* ------------------------------------------------------------------ properties
\* What the properties of the fetch-decrypt stage read.

\* The listing has been handed to the loop.
InRun == pc \notin {"idle", "wait"}

\* The listed items whose loop body is over.
Processed ==
    (DOMAIN current_files)
        \ (todo \cup (IF pc \in {"dl", "dl_rec", "dec", "dec_rec"} THEN {cur} ELSE {}))

\* The fetched and the decrypted record as this run loaded them.
FetchedAtStart == load_history_set(start.histDl)
DecryptedAtStart == load_history_set(start.histDec)

\* When this run began, the item's fetch and decrypt were both on record and
\* both files were whole.
SettledAtStart(n) ==
    /\ n \in start.histDl /\ n \in start.histDec
    /\ start.dlDir[n] = "full" /\ start.decDir[n] = "full"

\* C1: a second run over an unchanged listing does nothing: when a run ends
\* without any failure every listed item is on the fetched and on the
\* decrypted record, and the run that follows it, the remote and the local
\* files being as that run left them, issues no sftp.get and no decrypt.
C1_SecondRunDoesNothing ==
    /\ (pc = "done" /\ RunClean) =>
          \A n \in DOMAIN current_files : n \in histDl /\ n \in histDec
    /\ (prev.end = "clean" /\ InRun /\ current_files = remote) =>
          calls.fetch = {} /\ calls.decrypt = {}

C4_DurablePerItem ==
    pc = "loop" =>
       \A n \in Processed :
          /\ n \in DOMAIN metaFile /\ metaFile[n] = current_files[n]
          /\ (n \in calls.fetch \ calls.xfail => n \in histDl)
          /\ (n \in calls.decrypt \ calls.dfail => n \in histDec)

C6_RecordOnlyAfterSuccess ==
    pc # "idle" =>
       /\ (histDl \ start.histDl) \cup (downloaded_set \ FetchedAtStart)
             \subseteq { n \in calls.fetch \ calls.xfail : dlDir[n] = "full" }
       /\ (histDec \ start.histDec) \cup (decrypted_set \ DecryptedAtStart)
             \subseteq { n \in calls.decrypt \ calls.dfail : decDir[n] = "full" }

\* C6, witness: a run with a failed transfer, a failed decryption and a
\* name newly on the fetched record.
C6_Witness ==
    /\ pc = "done"
    /\ calls.xfail # {} /\ calls.dfail # {}
    /\ histDl # start.histDl

\* An item on both loaded records with both local files there.
RecordedWithFiles(n) ==
    /\ n \in FetchedAtStart /\ start.dlDir[n] # "none"
    /\ n \in DecryptedAtStart /\ start.decDir[n] # "none"

\* C7 as claimed: a processed item that was on both records is transferred
\* and decrypted again when its listed (mtime, size) differs from the
\* metadata on file, and not transferred when it is the same.
C7_ChangedItemRefetched ==
    \A n \in Processed :
       (RecordedWithFiles(n) /\ n \in DOMAIN start.metaFile) =>
          IF start.metaFile[n] # current_files[n]
          THEN n \in calls.fetch /\ n \in calls.decrypt
          ELSE n \notin calls.fetch

\* C7: the stage transfers and decrypts by record and file only: a processed
\* item that was on both loaded records with both files there is neither
\* transferred nor decrypted again, whether its listed (mtime, size) is the
\* one on file or another; the new metadata is taken over all the same.
C7_RecordedItemNeverRefetched ==
    \A n \in Processed :
       RecordedWithFiles(n) =>
          /\ n \notin calls.fetch /\ n \notin calls.decrypt
          /\ remote_meta[n] = current_files[n]

\* C7, witness: an item on both records whose remote (mtime, size) changed
\* has been processed without a transfer.
C7_Witness ==
    \E n \in Processed :
       /\ RecordedWithFiles(n)
       /\ n \in DOMAIN start.metaFile /\ start.metaFile[n] # current_files[n]
       /\ n \notin calls.fetch

\* C8: when a run is over, remote_file_meta.json holds for every item of the
\* listing exactly the listed (mtime, size), whatever happened to the item.
C8_MetaOfEveryListedItem ==
    pc = "done" =>
       \A n \in DOMAIN current_files :
          n \in DOMAIN metaFile /\ metaFile[n] = current_files[n]

\* C8, witness: a finished run in which a transfer failed, a decryption
\* failed, and an older metadata entry was replaced by the listed one.
C8_Witness ==
    /\ pc = "done"
    /\ calls.xfail # {} /\ calls.dfail # {}
    /\ \E n \in DOMAIN current_files :
          /\ n \in DOMAIN start.metaFile
          /\ start.metaFile[n] # current_files[n]
          /\ metaFile[n] = current_files[n]

\* ------------------------------------------------------------------ stability

\* The comparison of line 184 on the file count alone.
SamplesMatch_CountOnly(s1, s2) == s1[1] = s2[1]

\* Line 184: the two snapshots of a round are the same.
SamplesMatch(s1, s2) == s1[1] = s2[1] /\ s1[2] = s2[2]

\* The budget test of line 193 off by one (rounds > max_rounds).
BudgetExceeded_OffByOne(limit, n) == limit > 0 /\ n > limit

\* Line 193: the round budget is used up.
BudgetExceeded(limit, n) == limit > 0 /\ n >= limit

\* wait_for_remote_stable is called: rounds = 0.
WaitCall ==
    /\ wpc = "call"
    /\ \E m \in 0..MaxRoundsArg : max_rounds' = m
    /\ rounds' = 0
    /\ wpc' = "round"
    /\ UNCHANGED <<remote, snap1, snap2, result>>

\* Lines 174-176: a round begins with its first snapshot.
Snapshot1 ==
    /\ wpc = "round"
    /\ rounds < RoundCap
    /\ rounds' = rounds + 1
    /\ \E files \in get_remote_file_list : snap1' = get_remote_status(files)
    /\ wpc' = "sleep"
    /\ UNCHANGED <<remote, max_rounds, snap2, result>>

\* Lines 178-184 and 192-193: after the sleep the second snapshot, then the
\* comparison and the budget test.
Snapshot2 ==
    /\ wpc = "sleep"
    /\ \E files \in get_remote_file_list :
          LET s2 == get_remote_status(files) IN
          /\ snap2' = s2
          /\ wpc' = IF SamplesMatch(snap1, s2) THEN "stable"
                    ELSE IF BudgetExceeded(max_rounds, rounds) THEN "budget"
                    ELSE "round"
    /\ UNCHANGED <<remote, max_rounds, rounds, snap1, result>>

\* Lines 185-190 and 195: one more listing, which is what is returned.
ReturnListing ==
    /\ wpc \in {"stable", "budget"}
    /\ \E files \in get_remote_file_list : result' = files
    /\ wpc' = IF wpc = "stable" THEN "ret_stable" ELSE "ret_budget"
    /\ UNCHANGED <<remote, max_rounds, rounds, snap1, snap2>>

\* The remote directory changes while the detector runs.
RemoteChangeDuringWait ==
    /\ wpc \in {"round", "sleep", "stable", "budget"}
    /\ RemoteStep
    /\ UNCHANGED waitVars

WaitNext ==
    \/ WaitCall \/ Snapshot1 \/ Snapshot2 \/ ReturnListing
    \/ RemoteChangeDuringWait

NextStable ==
    WaitNext /\ UNCHANGED <<syncVars, mergeVars, groupVars, convVars, runVars,
                           peerVars, simVars>>

\* One call of wait_for_remote_stable against a remote that keeps changing.
SpecStable == Init /\ [][NextStable]_vars

\* The two snapshots taken last are equal. (After the first snapshot of a
\* later round they are the second of the round before and this one.)
LatestTwoEqual ==
    IF wpc = "sleep" THEN rounds >= 2 /\ snap2 = snap1
    ELSE rounds >= 1 /\ snap1 = snap2

\* C9 as claimed: as soon as any two consecutive snapshots are equal,
\* wherever in the sequence of snapshots, the source is declared stable.
C9_AnyEqualPairReturns ==
    LatestTwoEqual => wpc \in {"stable", "ret_stable"}

\* C9: the source is declared stable as soon as the two snapshots of one
\* round are equal, and only then: no further round follows a round whose
\* snapshots are equal. (The second snapshot of a round is not compared with
\* the first of the next.) With equal snapshots in the first round the call
\* returns in round 1; with a change in round 1 and none in round 2, in
\* round 2.
C9_RoundPairDecides ==
    /\ wpc \in {"stable", "ret_stable"} => snap1 = snap2
    /\ (wpc \in {"round", "budget", "ret_budget"} /\ rounds >= 1) => snap1 # snap2

\* C9, witness: the call has returned "stable" in its second round.
C9_Witness ==
    wpc = "ret_stable" /\ rounds = 2 /\ snap1 = snap2

\* C10: with max_rounds = N > 0 the rounds never exceed N and the N-th
\* round is followed by the return, stable or not; the budget is what ends
\* the wait only then; with max_rounds = 0 the call leaves its loop only
\* on two equal snapshots of a round.
C10_RoundBudget ==
    /\ max_rounds > 0 => rounds <= max_rounds
    /\ (max_rounds > 0 /\ rounds = max_rounds) => wpc # "round"
    /\ wpc \in {"budget", "ret_budget"} =>
          max_rounds > 0 /\ rounds = max_rounds /\ snap1 # snap2
    /\ (max_rounds = 0 /\ wpc \notin {"call", "round", "sleep"}) =>
          wpc \in {"stable", "ret_stable"} /\ snap1 = snap2

\* C10, witness: the call has returned on its budget after max_rounds = 2
\* rounds that each saw a change.
C10_Witness ==
    wpc = "ret_budget" /\ max_rounds = 2 /\ rounds = 2

\* C10, second case reached: with no limit the wait is in a round beyond
\* any limit the model gives.
C10_NoLimitGoesOn ==
    max_rounds = 0 /\ rounds > MaxRoundsArg /\ wpc = "sleep"

\* C11: a listing that failed is not taken for an empty one: when
\* wait_for_remote_stable has declared the source stable and returns no
\* item, the remote directory of that moment holds no item. (The remote does
\* not change after the last listing, so a returned [] over a remote that
\* holds items is a listing that failed.)
C11_FailedListingNotEmpty ==
    (wpc = "ret_stable" /\ result = EmptyMap) => remote = EmptyMap

\* ------------------------------------------------------------------ part names
\* The names of the decrypted directory as group_decrypted_parts reads them:
\* sequences of characters, matched against the pattern of line 295.

\* \d
Digits == <<"0", "1", "2", "3", "4", "5", "6", "7", "8", "9">>
DigitSet == { Digits[i] : i \in 1..Len(Digits) }
IsDigit(c) == c \in DigitSet

\* [a-zA-Z]
Letters ==
    {"a", "b", "c", "d", "e", "f", "g", "h", "i", "j", "k", "l", "m", "n", "o",
     "p", "q", "r", "s", "t", "u", "v", "w", "x", "y", "z",
     "A", "B", "C", "D", "E", "F", "G", "H", "I", "J", "K", "L", "M", "N", "O",
     "P", "Q", "R", "S", "T", "U", "V", "W", "X", "Y", "Z"}

\* [a-zA-Z0-9]
IsAlnum(c) == IsDigit(c) \/ c \in Letters

AllDigits(s) == \A i \in 1..Len(s) : IsDigit(s[i])
AllAlnum(s) == \A i \in 1..Len(s) : IsAlnum(s[i])

\* int(c) of one decimal digit.
DigitVal(c) == (CHOOSE i \in 1..Len(Digits) : Digits[i] = c) - 1

\* int(m.group(1)): the number a string of decimal digits denotes.
RECURSIVE int(_)
int(s) ==
    IF s = << >> THEN 0
    ELSE 10 * int(SubSeq(s, 1, Len(s) - 1)) + DigitVal(s[Len(s)])

\* str(i) of a natural number.
RECURSIVE str(_)
str(i) ==
    IF i < 10 THEN <<Digits[i + 1]>>
    ELSE str(i \div 10) \o <<Digits[(i % 10) + 1]>>

\* s.find(c, from): the first index of c in s at or after from; 0 if none.
Find(s, c, from) ==
    LET hits == { i \in from..Len(s) : s[i] = c }
    IN  IF hits = {} THEN 0 ELSE CHOOSE i \in hits : \A j \in hits : i <= j

\* The length of the longest prefix of s made of digits.
DigitPrefix(s) ==
    LET stops == { i \in 1..Len(s) : ~IsDigit(s[i]) }
    IN  IF stops = {} THEN Len(s)
        ELSE (CHOOSE i \in stops : \A j \in stops : i <= j) - 1

\* The file names the grouping is applied to: three parts of the group h-j-1
\* (seq 2, seq 10, and seq 2 again, written "02"), one part of the group
\* h-k-1, one whose characters before "_ctrl_" are all digits, and a name
\* that is the output name of a merge.
GroupNames ==
    { <<"2", "h", "_", "c", "t", "r", "l", "_", "j", "_", "1", "-", "1">>,
      <<"1", "0", "h", "_", "c", "t", "r", "l", "_", "j", "_", "2", "-", "1">>,
      <<"0", "2", "h", "_", "c", "t", "r", "l", "_", "j", "_", "3", "-", "1">>,
      <<"1", "h", "_", "c", "t", "r", "l", "_", "k", "_", "1", "-", "1">>,
      <<"1", "2", "_", "c", "t", "r", "l", "_", "j", "_", "1", "-", "1">>,
      <<"h", "-", "j", "-", "1">> }

\* pattern.match found nothing.
NoMatch == [seq |-> -1, host |-> << >>, job |-> << >>, file_type |-> << >>]

\* The match of a name against
\*   ^(\d+)([a-zA-Z0-9]+)_ctrl_([a-zA-Z0-9]+)_\d+-(\d+)$
\* with seq = int(m.group(1)). None of the separators is in a character
\* class, so the fields end at the first "_", the next "_" and the first "-"
\* after it; (\d+) is greedy and gives back one digit when the characters
\* before "_ctrl_" are all digits; "$" also matches before one final newline.
re_match(filename) ==
    LET s  == IF filename # << >> /\ filename[Len(filename)] = "\n"
              THEN SubSeq(filename, 1, Len(filename) - 1) ELSE filename
        u1 == Find(s, "_", 1)
        head == SubSeq(s, 1, u1 - 1)
        nd == IF DigitPrefix(head) = Len(head) THEN Len(head) - 1
              ELSE DigitPrefix(head)
        u2 == Find(s, "_", u1 + 6)
        d  == Find(s, "-", u2 + 1)
        job == SubSeq(s, u1 + 6, u2 - 1)
        id == SubSeq(s, u2 + 1, d - 1)
        typ == SubSeq(s, d + 1, Len(s))
    IN  IF /\ u1 > 0 /\ AllAlnum(head) /\ nd >= 1
           /\ u1 + 5 <= Len(s)
           /\ SubSeq(s, u1, u1 + 5) = <<"_", "c", "t", "r", "l", "_">>
           /\ u2 > 0 /\ job # << >> /\ AllAlnum(job)
           /\ d > 0 /\ id # << >> /\ AllDigits(id)
           /\ typ # << >> /\ AllDigits(typ)
        THEN [seq |-> int(SubSeq(head, 1, nd)),
              host |-> SubSeq(head, nd + 1, Len(head)),
              job |-> job, file_type |-> typ]
        ELSE NoMatch

\* re_match of every name of GroupNames, computed once.
MatchOfName == [n \in GroupNames |-> re_match(n)]

\* pattern.match(filename), line 299.
pattern_match(filename) ==
    IF filename \in GroupNames THEN MatchOfName[filename] ELSE re_match(filename)

\* Line 300 letting every name through.
Unmatched_Never(m) == FALSE

\* Line 300, "if not m": the name did not match.
Unmatched(m) == m = NoMatch

\* The group key without the job: f"{host}-{file_type}".
group_key_NoJob(m) == m.host \o <<"-">> \o m.file_type

\* f"{host}-{job}-{file_type}"
group_key(m) == m.host \o <<"-">> \o m.job \o <<"-">> \o m.file_type

\* The characters of the names in code-point order, which is the order
\* sorted() compares strings by.
CodeOrder ==
    <<"\n", " ", "-",
      "0", "1", "2", "3", "4", "5", "6", "7", "8", "9",
      "A", "B", "C", "D", "E", "F", "G", "H", "I", "J", "K", "L", "M", "N", "O",
      "P", "Q", "R", "S", "T", "U", "V", "W", "X", "Y", "Z",
      "_",
      "a", "b", "c", "d", "e", "f", "g", "h", "i", "j", "k", "l", "m", "n", "o",
      "p", "q", "r", "s", "t", "u", "v", "w", "x", "y", "z">>

\* ord(c), up to an order-preserving renumbering.
Ord(c) == CHOOSE i \in 1..Len(CodeOrder) : CodeOrder[i] = c

\* a < b on str.
RECURSIVE StrLess(_, _)
StrLess(a, b) ==
    IF b = << >> THEN FALSE
    ELSE IF a = << >> THEN TRUE
    ELSE IF Head(a) = Head(b) THEN StrLess(Tail(a), Tail(b))
    ELSE Ord(Head(a)) < Ord(Head(b))

\* sorted(keys, reverse=True).
RECURSIVE sorted_Reversed(_)
sorted_Reversed(keys) ==
    IF keys = {} THEN << >>
    ELSE LET k == CHOOSE x \in keys : \A y \in keys \ {x} : StrLess(y, x)
         IN  <<k>> \o sorted_Reversed(keys \ {k})

\* sorted(keys) of a set of strings.
RECURSIVE sorted(_)
sorted(keys) ==
    IF keys = {} THEN << >>
    ELSE LET k == CHOOSE x \in keys : \A y \in keys \ {x} : StrLess(x, y)
         IN  <<k>> \o sorted(keys \ {k})

\* One step of list.sort(key=lambda p: p.seq): p put into the sorted list
\* behind every part whose seq is not greater (the sort is stable).
RECURSIVE InsertBySeq(_, _)
InsertBySeq(lst, p) ==
    IF lst = << >> THEN <<p>>
    ELSE IF lst[Len(lst)].seq <= p.seq THEN Append(lst, p)
    ELSE Append(InsertBySeq(SubSeq(lst, 1, Len(lst) - 1), p), lst[Len(lst)])

\* The list left in the order the directory was listed in (no sort).
SortBySeq_AsListed(lst) == lst

\* groups[k].sort(key=lambda p: p.seq)
RECURSIVE SortBySeq(_)
SortBySeq(lst) ==
    IF lst = << >> THEN << >>
    ELSE InsertBySeq(SortBySeq(SubSeq(lst, 1, Len(lst) - 1)), lst[Len(lst)])

\* The sequences that enumerate the set S once each: the orders os.listdir
\* can return a directory in.
RECURSIVE Enumerations(_)
Enumerations(S) ==
    IF S = {} THEN { << >> }
    ELSE UNION { { <<x>> \o e : e \in Enumerations(S \ {x}) } : x \in S }

\* [x for x in lst if x in S]
RECURSIVE SelectIn(_, _)
SelectIn(lst, S) ==
    IF lst = << >> THEN << >>
    ELSE (IF Head(lst) \in S THEN <<Head(lst)>> ELSE << >>) \o SelectIn(Tail(lst), S)

\* group_decrypted_parts over the directory enumerated as listing: the
\* matching names by group key, in the order met, then sorted by seq.
group_decrypted_parts(listing) ==
    LET entries == { listing[i] : i \in DOMAIN listing }
        m == [n \in entries |-> pattern_match(n)]
        matching == { n \in entries : ~Unmatched(m[n]) }
        keys == { group_key(m[n]) : n \in matching }
        Met(k) == SelectIn(listing, { n \in matching : group_key(m[n]) = k })
        Parts(names) ==
            [i \in DOMAIN names |-> [seq |-> m[names[i]].seq, name |-> names[i]]]
    IN  [k \in keys |-> SortBySeq(Parts(Met(k)))]

\* ------------------------------------------------------------------ timestamp

\* UTC_PLUS_8 = timezone(timedelta(hours=0)): the offset left out.
UTC_PLUS_8_NoOffset == 0 * 3600

\* UTC_PLUS_8 = timezone(timedelta(hours=8)), in seconds.
UTC_PLUS_8 == 8 * 3600

\* The proleptic Gregorian date of the day that many days after 1970-01-01,
\* as datetime computes it.
CivilFromDays(days) ==
    LET z   == days + 719468
        era == z \div 146097
        doe == z - era * 146097
        yoe == (doe - doe \div 1460 + doe \div 36524 - doe \div 146096) \div 365
        doy == doe - (365 * yoe + yoe \div 4 - yoe \div 100)
        mp  == (5 * doy + 2) \div 153
        m   == IF mp < 10 THEN mp + 3 ELSE mp - 9
    IN  [year |-> yoe + era * 400 + (IF m <= 2 THEN 1 ELSE 0),
         month |-> m,
         day |-> doy - (153 * mp + 2) \div 5 + 1]

\* "%0<width>d" % n
RECURSIVE ZeroPad(_, _)
ZeroPad(digits, width) ==
    IF Len(digits) >= width THEN digits ELSE ZeroPad(<<"0">> \o digits, width)

\* beijing_timestamp_from_utc_epoch(epoch_sec, "%Y%m%d%H%M%S"): the epoch as
\* a UTC date-time, moved to the zone UTC_PLUS_8, printed with strftime.
beijing_timestamp_from_utc_epoch(epoch_sec) ==
    LET local == epoch_sec + UTC_PLUS_8
        date  == CivilFromDays(local \div 86400)
        sod   == local % 86400
    IN  ZeroPad(str(date.year), 4) \o ZeroPad(str(date.month), 2)
           \o ZeroPad(str(date.day), 2) \o ZeroPad(str(sod \div 3600), 2)
           \o ZeroPad(str((sod % 3600) \div 60), 2) \o ZeroPad(str(sod % 60), 2)

\* ------------------------------------------------------------------ merge

\* The file names the decrypted directory of the merge runs can hold: the
\* parts with seq 2 and seq 10 of the group h-j-1, the part of the group
\* h-k-1 and the name that matches nothing.
MergeNames ==
    { n \in GroupNames : Len(n) = 5 \/ (Len(n) >= 13 /\ n[2] # "2") }

\* The bytes of a part file: its own for every name (the sequence number of
\* the name, then the number of characters of the name).
PartBytes(n) ==
    LET m == pattern_match(n)
    IN  IF m = NoMatch THEN <<0, Len(n)>> ELSE <<m.seq, Len(n)>>

\* The parts remote_file_meta.json can have an entry for, and the mtime of
\* each: 2024-01-01T23:30:00Z for the part with seq 2 and
\* 2024-12-31T16:00:00Z for the part with seq 10 of the group h-j-1.
PartMtime(n) == IF pattern_match(n).seq = 2 THEN 1704151800 ELSE 1735660800
MetaNames ==
    { n \in MergeNames :
         /\ pattern_match(n) # NoMatch
         /\ group_key(pattern_match(n)) = <<"h", "-", "j", "-", "1">> }

\* max(mtimes) giving the smallest.
Max_Smallest(S) == CHOOSE x \in S : \A y \in S : x <= y

\* max(mtimes), min(mtimes)
Max(S) == CHOOSE x \in S : \A y \in S : y <= x
Min(S) == CHOOSE x \in S : \A y \in S : x <= y

\* Lines 338-342: the mtimes of the parts that have metadata.
PartMtimes(parts, meta) ==
    { meta[parts[i].name].mtime :
         i \in { j \in DOMAIN parts : parts[j].name \in DOMAIN meta } }

\* Lines 335 and 344-350: the group key, with the timestamp of the
\* aggregated mtime behind it when a part has metadata.
out_path(key_, parts, meta, policy) ==
    LET mtimes == PartMtimes(parts, meta)
        epoch == IF policy = "max" THEN Max(mtimes) ELSE Min(mtimes)
    IN  IF mtimes # {}
        THEN key_ \o <<"_">> \o beijing_timestamp_from_utc_epoch(epoch)
        ELSE key_

\* f"{out_path}_{i}"
Suffixed(path, i) == path \o <<"_">> \o str(i)

\* Lines 355-357: the first i, counting from `from`, with no file
\* f"{out_path}_{i}" in the directory.
RECURSIVE FreeSuffix(_, _, _)
FreeSuffix(path, from, dir) ==
    IF Suffixed(path, from) \notin DOMAIN dir THEN from
    ELSE FreeSuffix(path, from + 1, dir)

\* Lines 353-358 without the test of line 354.
avoid_overwrite_NoTest(path, dir) == path

\* Lines 353-358 with the suffixes counted from 2.
avoid_overwrite_FromTwo(path, dir) ==
    IF path \in DOMAIN dir THEN Suffixed(path, FreeSuffix(path, 2, dir))
    ELSE path

\* Lines 353-358: out_path, or out_path_i for the first free i.
avoid_overwrite(path, dir) ==
    IF path \in DOMAIN dir THEN Suffixed(path, FreeSuffix(path, 1, dir))
    ELSE path

\* Lines 362-368: the bytes of the parts, one after the other. cut maps each
\* part whose copy raises to the number of its bytes shutil.copyfileobj had
\* written by then (fewer than the part has); the loop goes on with the next
\* part.
RECURSIVE CopyParts(_, _, _)
CopyParts(parts, dir, cut) ==
    IF parts = << >> THEN << >>
    ELSE LET n == Head(parts).name
         IN  (IF n \in DOMAIN cut THEN SubSeq(dir[n], 1, cut[n]) ELSE dir[n])
                \o CopyParts(Tail(parts), dir, cut)

\* merge_groups' locals are gone.
MergeLocalsGone ==
    /\ mpc' = "idle"
    /\ mtime_policy' = "max"
    /\ groups' = << >>
    /\ final_path' = << >>
    /\ outputs' = << >>
    /\ unread' = {}
    /\ remote_meta' = EmptyMap

\* main, lines 739-748, and merge_groups, lines 323-333: the metadata is
\* loaded, the decrypted directory is listed in whatever order the file
\* system gives and grouped.
MergeStart ==
    /\ mpc = "idle" /\ merges < MaxMerges
    /\ merges' = merges + 1
    /\ remote_meta' = load_remote_meta(metaFile)
    /\ \E listing \in Enumerations(DOMAIN src_dir) :
          groups' = group_decrypted_parts(listing)
    /\ \E policy \in {"max", "min"} : mtime_policy' = policy
    /\ outputs' = << >>
    /\ unread' = {}
    /\ mpc' = "loop"
    /\ UNCHANGED <<failures, src_dir, dst_dir, final_path, metaFile>>

\* The group the loop of line 333 is at.
CurrentKey == sorted(DOMAIN groups)[Len(outputs) + 1]

\* Lines 334-358: the output name of the next group.
ChoosePath ==
    /\ mpc = "loop"
    /\ Len(outputs) < Cardinality(DOMAIN groups)
    /\ final_path' = avoid_overwrite(
                        out_path(CurrentKey, groups[CurrentKey], remote_meta,
                                 mtime_policy),
                        dst_dir)
    /\ mpc' = "write"
    /\ UNCHANGED <<failures, src_dir, dst_dir, mtime_policy, groups, outputs, merges,
                   unread, metaFile, remote_meta>>

\* The ways the copy of some parts can fail: part name -> bytes copied before
\* the exception.
Cuts(parts, dir) ==
    UNION { { cut \in [bad -> 0..2] : \A n \in bad : cut[n] < Len(dir[n]) } :
               bad \in SUBSET { parts[i].name : i \in DOMAIN parts } }

\* Lines 360-371 with the try block of lines 364-368 left out: the first
\* part that cannot be read ends merge_groups, the artifact left as far as
\* it was written.
WriteArtifact_Abort ==
    /\ mpc = "write"
    /\ \E cut \in Cuts(groups[CurrentKey], src_dir) :
          /\ failures + Cardinality(DOMAIN cut) <= MaxReadFailures
          /\ failures' = failures + Cardinality(DOMAIN cut)
          /\ dst_dir' = Upsert(dst_dir, final_path,
                               CopyParts(groups[CurrentKey], src_dir, cut))
          /\ unread' = unread \cup DOMAIN cut
          /\ outputs' = IF cut = << >> THEN Append(outputs, final_path) ELSE outputs
          /\ mpc' = IF cut = << >> THEN "loop" ELSE "done"
    /\ UNCHANGED <<src_dir, mtime_policy, groups, final_path, merges,
                   metaFile, remote_meta>>

\* Lines 360-371 moving the parts into the artifact: each part is removed
\* from the decrypted directory once the group is written.
WriteArtifact_Moves ==
    /\ mpc = "write"
    /\ \E cut \in Cuts(groups[CurrentKey], src_dir) :
          /\ failures + Cardinality(DOMAIN cut) <= MaxReadFailures
          /\ failures' = failures + Cardinality(DOMAIN cut)
          /\ dst_dir' = Upsert(dst_dir, final_path,
                               CopyParts(groups[CurrentKey], src_dir, cut))
          /\ unread' = unread \cup DOMAIN cut
    /\ src_dir' = [n \in (DOMAIN src_dir)
                            \ { groups[CurrentKey][i].name :
                                   i \in DOMAIN groups[CurrentKey] }
                      |-> src_dir[n]]
    /\ outputs' = Append(outputs, final_path)
    /\ mpc' = "loop"
    /\ UNCHANGED <<mtime_policy, groups, final_path, merges,
                   metaFile, remote_meta>>

\* Lines 360-371: the artifact is opened for writing and the parts are
\* copied into it; a part whose open or read raises is logged and the loop
\* goes on with the next part.
WriteArtifact ==
    /\ mpc = "write"
    /\ \E cut \in Cuts(groups[CurrentKey], src_dir) :
          /\ failures + Cardinality(DOMAIN cut) <= MaxReadFailures
          /\ failures' = failures + Cardinality(DOMAIN cut)
          /\ dst_dir' = Upsert(dst_dir, final_path,
                               CopyParts(groups[CurrentKey], src_dir, cut))
          /\ unread' = unread \cup DOMAIN cut
    /\ outputs' = Append(outputs, final_path)
    /\ mpc' = "loop"
    /\ UNCHANGED <<src_dir, mtime_policy, groups, final_path, merges,
                   metaFile, remote_meta>>

\* Line 373: every group is done, the list of outputs is returned.
MergeReturn ==
    /\ mpc = "loop"
    /\ Len(outputs) = Cardinality(DOMAIN groups)
    /\ mpc' = "done"
    /\ UNCHANGED <<failures, src_dir, dst_dir, mtime_policy, groups, final_path, outputs,
                   merges, unread, metaFile, remote_meta>>

\* main, line 758: the command is over.
MergeExit ==
    /\ mpc = "done"
    /\ MergeLocalsGone
    /\ UNCHANGED <<failures, src_dir, dst_dir, merges, metaFile>>

\* Between two merges a decrypted part arrives in the decrypted directory.
AddPart ==
    /\ mpc = "idle"
    /\ \E n \in MergeNames \ DOMAIN src_dir :
          src_dir' = Upsert(src_dir, n, PartBytes(n))
    /\ UNCHANGED <<failures, dst_dir, mpc, mtime_policy, groups, final_path, outputs,
                   merges, unread, metaFile, remote_meta>>

\* Between two merges a sync run records the (mtime, size) of an item.
SetMeta ==
    /\ mpc = "idle"
    /\ \E n \in MetaNames \ DOMAIN metaFile :
          metaFile' = update_remote_meta(metaFile, n, PartMtime(n), Len(PartBytes(n)))
    /\ UNCHANGED <<mergeVars, remote_meta>>

MergeNext ==
    \/ MergeStart \/ ChoosePath \/ WriteArtifact \/ MergeReturn \/ MergeExit
    \/ AddPart \/ SetMeta

NextMerge ==
    MergeNext /\ UNCHANGED <<envVars, waitVars, bookVars, dlDir, decDir, histDl,
                             histDec, metaTmp, pc, key, downloaded_set,
                             decrypted_set, current_files, todo, cur,
                             groupVars, convVars, runVars, peerVars, simVars>>

\* The merge command, run after run, over a decrypted directory and a
\* metadata file that grow in between.
SpecMerge == Init /\ [][NextMerge]_vars

\* ------------------------------------------------------------------ grouping

\* group_decrypted_parts(src_dir), lines 291-312, on any directory of
\* GroupNames listed in any order.
GroupDir ==
    /\ mpc = "idle"
    /\ \E S \in SUBSET GroupNames :
          \E e \in Enumerations(S) :
             /\ listdir' = e
             /\ groups' = group_decrypted_parts(e)
    /\ mpc' = "grouped"
    /\ UNCHANGED <<failures, src_dir, dst_dir, mtime_policy, final_path, outputs, merges,
                   unread>>

NextGroup ==
    GroupDir /\ UNCHANGED <<envVars, syncVars, waitVars, convVars, runVars,
                           peerVars, simVars>>

\* group_decrypted_parts as a function of the directory listing.
SpecGroup == Init /\ [][NextGroup]_vars

\* ------------------------------------------------------------------ conversion
\* main's loop over the merged artifacts (lines 749-758 and 782-791) and
\* try_convert_stream with the external converters it runs.

\* The converters, and what --convert-tool and --convert-format can be.
Converters == {"gs", "gpcl6", "pcl6"}
ToolArgs == {"auto"} \cup Converters
Formats == {"pdf", "png"}

\* What detect_stream_kind can find in a file.
StreamKinds == {"pdf", "ps", "pjl_or_pcl", "unknown"}

\* The lists of merged paths the loop is run over on its own.
MergedLists ==
    { << >>,
      << <<"h", "-", "j", "-", "1">> >>,
      << <<"h", "-", "j", "-", "1">>, <<"h", "-", "k", "-", "1">> >> }

\* Line 470: every run of characters outside A-Za-z0-9._- becomes one "_".
SafeChars == Letters \cup DigitSet \cup {".", "_", "-"}
RECURSIVE DropUnsafe(_)
DropUnsafe(s) ==
    IF s = << >> \/ Head(s) \in SafeChars THEN s ELSE DropUnsafe(Tail(s))
RECURSIVE sanitize_basename(_)
sanitize_basename(name) ==
    IF name = << >> THEN << >>
    ELSE IF Head(name) \in SafeChars
         THEN <<Head(name)>> \o sanitize_basename(Tail(name))
         ELSE <<"_">> \o sanitize_basename(DropUnsafe(Tail(name)))

\* Lines 488-495: the candidates, in the order they are tried.
candidates(kind, tool) ==
    IF tool = "auto"
    THEN IF kind \in {"pdf", "ps"} THEN <<"gs", "gpcl6", "pcl6">>
         ELSE <<"gpcl6", "pcl6", "gs">>
    ELSE <<tool>>

\* Lines 442 and 445: the file the converter is told to write, {base}.pdf or
\* the first page {base}-001.png.
expected_out(base, fmt) ==
    IF fmt = "pdf" THEN base \o <<".", "p", "d", "f">>
    ELSE base \o <<"-", "0", "0", "1", ".", "p", "n", "g">>

\* glob(f"{base}-*.png")
glob_png(dir, base) ==
    { f \in DOMAIN dir :
         /\ Len(f) >= Len(base) + 5
         /\ SubSeq(f, 1, Len(base) + 1) = base \o <<"-">>
         /\ SubSeq(f, Len(f) - 3, Len(f)) = <<".", "p", "n", "g">> }

\* The directory holds a non-empty output of base: its PDF, or a page image.
non_empty_output(dir, base, fmt) ==
    \E f \in DOMAIN dir :
       /\ dir[f] > 0
       /\ IF fmt = "pdf" THEN f = base \o <<".", "p", "d", "f">>
          ELSE f \in glob_png(dir, base)

\* Lines 515-524: the outputs are there.
outputs_exist(dir, base, fmt) ==
    IF fmt = "pdf"
    THEN LET out == base \o <<".", "p", "d", "f">>
         IN  out \in DOMAIN dir /\ dir[out] > 0
    ELSE glob_png(dir, base) # {}

\* The conversion loop of main over the list merge_groups returned, with the
\* --convert-tool and --convert-format of this process.
auto_convert(merged) ==
    /\ cpc = "idle"
    /\ \E tool \in ToolArgs : conv_tool' = tool
    /\ \E fmt \in Formats : out_format' = fmt
    /\ conv_todo' = merged
    /\ results' = << >>
    /\ cpc' = "next"
    /\ UNCHANGED <<converted_dir, attempts, invoked, exits, conv_result>>

\* The loop on its own, over a list of merged paths.
ConvertMerged == \E merged \in MergedLists : auto_convert(merged)

\* Lines 750-751 and 484-497: try_convert_stream is called for the next
\* path; the kind of the stream decides the order of the candidates.
ConvertCall ==
    /\ cpc = "next" /\ conv_todo # << >>
    /\ \E kind \in StreamKinds : attempts' = candidates(kind, conv_tool)
    /\ invoked' = << >>
    /\ exits' = << >>
    /\ conv_result' = "none"
    /\ cpc' = "try"
    /\ UNCHANGED <<converted_dir, conv_tool, out_format, conv_todo, results>>

\* Lines 498-512 and 438-462: the next candidate. When which() does not find
\* it, render_to_images_or_pdf raises and the loop goes on; otherwise
\* subprocess.run starts the converter and waits for it.
TryCandidate ==
    /\ cpc = "try" /\ attempts # << >>
    /\ \E found \in BOOLEAN :
          IF found
          THEN /\ invoked' = Append(invoked, Head(attempts))
               /\ cpc' = "running"
               /\ UNCHANGED attempts
          ELSE /\ attempts' = Tail(attempts)
               /\ UNCHANGED <<invoked, cpc>>
    /\ UNCHANGED <<converted_dir, conv_tool, out_format, conv_todo, exits,
                   conv_result, results>>

\* The converter exits: with which status, and having written nothing, an
\* empty file or a non-empty file where it was told to, is up to it. Lines
\* 463-465 and 509-526: a status other than 0 raises and the loop goes on;
\* after status 0 the outputs are looked for, and found, True is returned.
ConverterExit ==
    /\ cpc = "running"
    /\ \E rc \in {0, 1}, wrote \in {"nothing", "empty", "nonempty"} :
          LET base == sanitize_basename(Head(conv_todo))
              out == expected_out(base, out_format)
              dir == IF wrote = "nothing" THEN converted_dir
                     ELSE Upsert(converted_dir, out,
                                 IF wrote = "empty" THEN 0 ELSE 1)
          IN  /\ converted_dir' = dir
              /\ exits' = Upsert(exits, Head(attempts),
                                 [rc |-> rc, wrote |-> wrote,
                                  there |-> non_empty_output(dir, base, out_format)])
              /\ IF rc = 0 /\ outputs_exist(dir, base, out_format)
                 THEN /\ conv_result' = "true"
                      /\ cpc' = "ret"
                      /\ UNCHANGED attempts
                 ELSE /\ attempts' = Tail(attempts)
                      /\ cpc' = "try"
                      /\ UNCHANGED conv_result
    /\ UNCHANGED <<conv_tool, out_format, conv_todo, invoked, results>>

\* Lines 528-532: no candidate is left.
AllFailed ==
    /\ cpc = "try" /\ attempts = << >>
    /\ conv_result' = "false"
    /\ cpc' = "ret"
    /\ UNCHANGED <<converted_dir, conv_tool, out_format, conv_todo, attempts,
                   invoked, exits, results>>

\* try_convert_stream has returned; main's loop, which does not look at the
\* result, goes on with the next path.
ConvertReturn ==
    /\ cpc = "ret"
    /\ results' = Upsert(results, Head(conv_todo), conv_result)
    /\ conv_todo' = Tail(conv_todo)
    /\ cpc' = "next"
    /\ UNCHANGED <<converted_dir, conv_tool, out_format, attempts, invoked,
                   exits, conv_result>>

\* Lines 759 and 792: the loop is over, main returns 0.
ConvertDone ==
    /\ cpc = "next" /\ conv_todo = << >>
    /\ cpc' = "done"
    /\ UNCHANGED <<converted_dir, conv_tool, out_format, conv_todo, attempts,
                   invoked, exits, conv_result, results>>

\* The conversion's locals are gone with the process.
ConvLocalsGone ==
    /\ cpc' = "idle"
    /\ conv_tool' = "auto"
    /\ out_format' = "pdf"
    /\ conv_todo' = << >>
    /\ attempts' = << >>
    /\ invoked' = << >>
    /\ exits' = << >>
    /\ conv_result' = "none"
    /\ results' = << >>

\* The process ends.
ConvertExit ==
    /\ cpc = "done"
    /\ ConvLocalsGone
    /\ UNCHANGED converted_dir

\* What main's conversion loop does by itself, the converter's exit apart.
ConvertSteps ==
    \/ ConvertCall \/ TryCandidate \/ AllFailed \/ ConvertReturn \/ ConvertDone

ConvertNext == ConvertMerged \/ ConvertSteps \/ ConverterExit \/ ConvertExit

NextConvert ==
    ConvertNext /\ UNCHANGED <<envVars, syncVars, waitVars, mergeVars, groupVars,
                              runVars, peerVars, simVars>>

\* The conversion loop, process after process, over one converted directory.
SpecConvert == Init /\ [][NextConvert]_vars

\* The same, main's own steps being taken whenever they can be; nothing makes
\* a converter exit.
SpecConvertFair ==
    SpecConvert
       /\ WF_vars(ConvertSteps /\ UNCHANGED <<envVars, syncVars, waitVars,
                                               mergeVars, groupVars, runVars,
                                               peerVars, simVars>>)

\* ------------------------------------------------------------------ the run command
\* main under `run`, lines 772-792: run_sync_decrypt, then merge_groups over
\* the decrypted directory with the metadata run_sync_decrypt returned, then,
\* with --auto-convert, the conversion of the artifacts merge_groups returned.

\* The run commands followed.
MaxRunCmds == 1

\* os.listdir(args.decrypt_dir): the files the fetch-decrypt stage keeps there
\* and the parts among them.
DecryptDirNames == DOMAIN src_dir \cup { n \in Names : decDir[n] # "none" }

\* Before the first command the decrypted directory holds any of the parts.
RunAddPart ==
    /\ pc = "idle" /\ runs = 0
    /\ AddPart
    /\ UNCHANGED <<envVars, syncVars, waitVars, groupVars, convVars, runVars,
                   peerVars, simVars>>

\* Lines 567-598 raise (SystemExit(2) on the key, the exception of
\* ssh.connect through the finally block): main catches neither, the process
\* ends there.
RunAbort ==
    /\ runs < MaxRunCmds
    /\ BadKey \/ ConnectFail
    /\ aborts' = aborts + 1
    /\ UNCHANGED <<waitVars, mergeVars, groupVars, convVars, peerVars, simVars>>

\* Line 773: run_sync_decrypt, from its start to the metadata file saved.
RunSync ==
    /\ pc = "idle" => runs < MaxRunCmds
    /\ \/ StartRun \/ WaitReturn \/ NextItem
       \/ DownloadSkip \/ SftpGetOk \/ SftpGetFail \/ RecordDownload
       \/ DecryptSkip \/ DecryptOk \/ DecryptFail \/ RecordDecrypt
       \/ SaveMetaTmp \/ SaveMetaReplace
    /\ UNCHANGED <<waitVars, mergeVars, groupVars, convVars, runVars,
                   peerVars, simVars>>

\* Lines 773-781 and 323-333: run_sync_decrypt returns its remote_meta, its
\* other locals are gone; merge_groups is called with it, lists the
\* decrypted directory and groups the names.
RunMerge ==
    /\ pc = "done" /\ mpc = "idle"
    /\ prev' = [end |-> IF RunClean THEN "clean" ELSE "failed",
                inflight |-> NoName, stage |-> "none",
                dfail |-> calls.dfail,
                key |-> IF calls.dfail = {} THEN "none" ELSE key]
    /\ pc' = "merge"
    /\ key' = "right"
    /\ downloaded_set' = {}
    /\ decrypted_set' = {}
    /\ current_files' = EmptyMap
    /\ todo' = {}
    /\ cur' = NoName
    /\ calls' = NoCalls
    /\ start' = NoDisk
    /\ merges' = merges + 1
    /\ \E listing \in Enumerations(DecryptDirNames) :
          groups' = group_decrypted_parts(listing)
    /\ \E policy \in {"max", "min"} : mtime_policy' = policy
    /\ outputs' = << >>
    /\ unread' = {}
    /\ mpc' = "loop"
    /\ UNCHANGED <<envVars, diskVars, remote_meta, runs, waitVars, failures,
                   src_dir, dst_dir, final_path, groupVars, convVars, runVars,
                   peerVars, simVars>>

\* merge_groups, lines 333-373.
RunMergeSteps ==
    /\ pc = "merge"
    /\ ChoosePath \/ WriteArtifact \/ MergeReturn
    /\ UNCHANGED <<envVars, waitVars, bookVars, dlDir, decDir, histDl, histDec,
                   metaTmp, pc, key, downloaded_set, decrypted_set,
                   current_files, todo, cur, groupVars, convVars, runVars,
                   peerVars, simVars>>

\* Lines 782-791: with --auto-convert, the loop over what merge_groups
\* returned, --convert-tool naming one converter (SpecConvert follows the
\* conversions with every --convert-tool, auto among them).
RunConvert ==
    /\ pc = "merge" /\ mpc = "done"
    /\ auto_convert(outputs)
    /\ conv_tool' \in Converters
    /\ UNCHANGED <<envVars, syncVars, waitVars, mergeVars, groupVars, runVars,
                   peerVars, simVars>>

RunConvertSteps ==
    /\ pc = "merge"
    /\ ConvertSteps \/ ConverterExit
    /\ UNCHANGED <<envVars, syncVars, waitVars, mergeVars, groupVars, runVars,
                   peerVars, simVars>>

\* Line 792: main returns 0, after the conversions or, without
\* --auto-convert, after merge_groups.
RunExit ==
    /\ pc = "merge" /\ mpc = "done" /\ cpc \in {"idle", "done"}
    /\ pc' = "idle"
    /\ MergeLocalsGone
    /\ ConvLocalsGone
    /\ UNCHANGED <<envVars, diskVars, key, downloaded_set, decrypted_set,
                   current_files, todo, cur, bookVars, waitVars, failures,
                   src_dir, dst_dir, merges, groupVars, converted_dir, runVars,
                   peerVars, simVars>>

NextRunMerge ==
    \/ RunAddPart \/ RunAbort \/ RunSync \/ RunMerge \/ RunMergeSteps
    \/ (RunExit /\ cpc = "idle")

\* The run command without --auto-convert.
SpecRun == Init /\ [][NextRunMerge]_vars

NextRunConvert ==
    \/ RunAddPart \/ RunAbort \/ RunSync \/ RunMerge \/ RunMergeSteps
    \/ RunConvert \/ RunConvertSteps \/ RunExit

\* The run command, with or without --auto-convert.
SpecRunConvert == Init /\ [][NextRunConvert]_vars

\* ------------------------------------------------------------------ decrypted parts
\* decrypt_if_needed writing parts into the decrypted directory, and the
\* merge command reading it, one process at a time.

\* decrypt_if_needed, lines 243-251, in a run that is at an item whose name
\* is a part name: the ciphertext is decrypted and the target file written.
\* Killed inside f.write the process leaves the beginning of the file.
DecryptPart ==
    /\ pc = "idle" /\ mpc = "idle"
    /\ \E n \in MergeNames \ DOMAIN src_dir :
          \E whole \in BOOLEAN :
             IF whole
             THEN /\ src_dir' = Upsert(src_dir, n, PartBytes(n))
                  /\ cur' = n
                  /\ pc' = "dec_rec"
             ELSE /\ src_dir' = Upsert(src_dir, n, SubSeq(PartBytes(n), 1, 1))
                  /\ UNCHANGED <<cur, pc>>
    /\ UNCHANGED <<envVars, diskVars, key, downloaded_set, decrypted_set,
                   remote_meta, current_files, todo, bookVars, waitVars,
                   dst_dir, mpc, mtime_policy, groups, final_path, outputs,
                   merges, unread, failures, groupVars, convVars, runVars,
                   peerVars, simVars>>

\* The rest of that run: the record of lines 253-254, the metadata saved,
\* the return; or the process killed before.
DecryptPartRest ==
    /\ RecordDecrypt \/ SaveMetaTmp \/ SaveMetaReplace \/ Return \/ Crash
    /\ UNCHANGED <<waitVars, mergeVars, groupVars, convVars, runVars, peerVars,
                   simVars>>

\* main, lines 739-748: the merge command, while no run is going on.
MergeOfDecrypted ==
    /\ pc = "idle"
    /\ MergeStart \/ ChoosePath \/ WriteArtifact \/ MergeReturn \/ MergeExit
    /\ UNCHANGED <<envVars, waitVars, bookVars, dlDir, decDir, histDl, histDec,
                   metaTmp, pc, key, downloaded_set, decrypted_set,
                   current_files, todo, cur, groupVars, convVars, runVars,
                   peerVars, simVars>>

NextDecryptMerge == DecryptPart \/ DecryptPartRest \/ MergeOfDecrypted

SpecDecryptMerge == Init /\ [][NextDecryptMerge]_vars

\* ------------------------------------------------------------------ two merges at once
\* Two invocations of merge_groups over the same directories. The merge
\* variables hold the locals of the one that is running; the other's are
\* kept in peer while it is not.

\* The operating system takes the processor from one and gives it to the other.
SwitchMerge ==
    /\ mpc # "idle" \/ peer.mpc # "idle"
    /\ peer' = [mpc |-> mpc, mtime_policy |-> mtime_policy, groups |-> groups,
                final_path |-> final_path, outputs |-> outputs,
                unread |-> unread, remote_meta |-> remote_meta]
    /\ mpc' = peer.mpc
    /\ mtime_policy' = peer.mtime_policy
    /\ groups' = peer.groups
    /\ final_path' = peer.final_path
    /\ outputs' = peer.outputs
    /\ unread' = peer.unread
    /\ remote_meta' = peer.remote_meta
    /\ UNCHANGED <<failures, src_dir, dst_dir, merges, metaFile>>

\* A step of the invocation that is running.
MergeStep ==
    /\ MergeStart \/ ChoosePath \/ WriteArtifact \/ MergeReturn \/ MergeExit
    /\ UNCHANGED peer

NextConcurrent ==
    /\ SwitchMerge \/ MergeStep
    /\ UNCHANGED <<envVars, waitVars, bookVars, dlDir, decDir, histDl, histDec,
                   metaTmp, pc, key, downloaded_set, decrypted_set,
                   current_files, todo, cur, groupVars, convVars, runVars,
                   simVars>>

SpecConcurrent == Init /\ [][NextConcurrent]_vars

\* ------------------------------------------------------------------ simaudit.py
\* PrinterAuditSync.run(): sync_from_server, decrypt_files, wait_for_stable,
\* merge_job_files, convert_to_pdf, process after process over one working
\* directory.

\* The processes that are killed.
MaxSimCrashes == 1

\* The key of config.json is a string Fernet accepts.
KeyAccepted(k) == k # "invalid"

\* s.startswith(pre)
StartsWith(s, pre) == Len(s) >= Len(pre) /\ SubSeq(s, 1, Len(pre)) = pre

\* s.find(sub): the first index at which sub occurs in s; 0 if none.
FindSub(s, sub) ==
    LET hits == { i \in 1..(Len(s) - Len(sub) + 1) :
                     SubSeq(s, i, i + Len(sub) - 1) = sub }
    IN  IF hits = {} THEN 0 ELSE CHOOSE i \in hits : \A j \in hits : i <= j

\* The one element of a set of one element: the value of an expression,
\* computed once.
The(S) == CHOOSE x \in S : TRUE

\* s.split(sep)
RECURSIVE Split(_, _)
SplitAt(s, sep, i) ==
    IF i = 0 THEN <<s>>
    ELSE <<SubSeq(s, 1, i - 1)>> \o Split(SubSeq(s, i + Len(sep), Len(s)), sep)
Split(s, sep) == The({ SplitAt(x, sep, FindSub(x, sep)) : x \in {s} })

\* sep.join(lst)
RECURSIVE Join(_, _)
Join(lst, sep) ==
    IF lst = << >> THEN << >>
    ELSE IF Len(lst) = 1 THEN lst[1]
    ELSE lst[1] \o sep \o Join(Tail(lst), sep)

\* filename.rsplit('.', 1)[0] if '.' in filename else filename
WithoutExt(filename) ==
    LET dots == { i \in 1..Len(filename) : filename[i] = "." }
    IN  IF dots = {} THEN filename
        ELSE SubSeq(filename, 1, (CHOOSE i \in dots : \A j \in dots : j <= i) - 1)

\* parse_filename returned None.
NotParsed == [printer_id |-> << >>, job_id |-> << >>, operation |-> << >>,
              subtask |-> -1, prefix |-> << >>, filename |-> << >>]

\* The segments of lst that do not start with "wp", and the last that does.
RECURSIVE PrefixSegs(_)
PrefixSegs(lst) ==
    IF lst = << >> THEN << >>
    ELSE (IF StartsWith(Head(lst), <<"w", "p">>) THEN << >> ELSE <<Head(lst)>>)
            \o PrefixSegs(Tail(lst))
LastWp(lst) ==
    LET is == { i \in 1..Len(lst) : StartsWith(lst[i], <<"w", "p">>) }
    IN  IF is = {} THEN << >> ELSE lst[CHOOSE i \in is : \A j \in is : j <= i]

\* Lines 314-321: the subtask is a number and the name is parsed.
ParseSubtask(filename, printer_id, prefix, job_part, subtask_str, operation) ==
    IF subtask_str = << >> \/ ~AllDigits(subtask_str) THEN NotParsed
    ELSE [printer_id |-> printer_id,
          job_id |-> Join(Split(job_part, <<"j", "o", "b">>), << >>),
          operation |-> operation,
          subtask |-> int(subtask_str),
          prefix |-> prefix,
          filename |-> filename]

\* Lines 303-312: "subtask-operation" is cut at its first dash and the job
\* part starts with "job".
ParseOperation(filename, printer_id, prefix, job_part, subop, dash) ==
    IF dash = 0 \/ ~StartsWith(job_part, <<"j", "o", "b">>) THEN NotParsed
    ELSE The({ ParseSubtask(filename, printer_id, prefix, job_part, subtask_str,
                            SubSeq(subop, dash + 1, Len(subop))) :
                  subtask_str \in {SubSeq(subop, 1, dash - 1)} })

\* Lines 278-301: the printer and the prefix of the part before "_ctrl__",
\* the job part and the rest of the part after it.
ParseSegments(filename, segs, suffix) ==
    IF LastWp(segs) = << >> \/ Len(suffix) < 2 THEN NotParsed
    ELSE The({ ParseOperation(filename, printer_id, prefix, suffix[1], subop,
                              FindSub(subop, <<"-">>)) :
                  printer_id \in {LastWp(segs)},
                  prefix \in {Join(PrefixSegs(segs), <<"_">>)},
                  subop \in {Join(Tail(suffix), <<"_">>)} })

\* Lines 269-276: the name has one "_ctrl__".
ParseParts(filename, parts) ==
    IF Len(parts) # 2 THEN NotParsed
    ELSE The({ ParseSegments(filename, segs, suffix) :
                  segs \in {Split(parts[1], <<"_">>)},
                  suffix \in {Split(parts[2], <<"_">>)} })

\* parse_filename, lines 252-325. (int() is taken on strings of digits; any
\* other subtask string is refused.)
parse_filename(filename) ==
    The({ ParseParts(filename, parts) :
             parts \in {Split(WithoutExt(filename),
                              <<"_", "c", "t", "r", "l", "_", "_">>)} })

\* strftime('%Y%m%d_%H%M%S') of a date and a second of the day.
sim_strftime(date, sod) ==
    ZeroPad(str(date.year), 4) \o ZeroPad(str(date.month), 2)
       \o ZeroPad(str(date.day), 2) \o <<"_">>
       \o ZeroPad(str(sod \div 3600), 2)
       \o ZeroPad(str((sod % 3600) \div 60), 2) \o ZeroPad(str(sod % 60), 2)
sim_datetime_str(local) == sim_strftime(CivilFromDays(local \div 86400), local % 86400)

\* Lines 369-370: the upload time, UTC, as a time of day eight hours ahead.
sim_time_str(upload_time_utc) == sim_datetime_str(upload_time_utc + 8 * 3600)

\* time.time() when merge_job_files runs.
SimNow == 1735700000

\* The plaintext of the file uploaded with this mtime.
SimPlain(filename, mtime) == << <<filename, mtime>> >>

\* Lines 336-347: the names of the listing that parse, in the order listed,
\* their groups (printer, job, operation), and the files of a group.
ParseAll(listing) == [i \in DOMAIN listing |-> parse_filename(listing[i])]
SimKeysOf(parsed) ==
    { <<parsed[i].printer_id, parsed[i].job_id, parsed[i].operation>> :
         i \in { j \in DOMAIN parsed : parsed[j] # NotParsed } }
RECURSIVE SimGroup(_, _)
SimGroup(parsed, k) ==
    IF parsed = << >> THEN << >>
    ELSE (IF Head(parsed) # NotParsed
             /\ <<Head(parsed).printer_id, Head(parsed).job_id,
                  Head(parsed).operation>> = k
          THEN <<Head(parsed)>> ELSE << >>) \o SimGroup(Tail(parsed), k)

\* file_list.sort(key=lambda x: x['subtask'])
RECURSIVE SortBySubtask(_)
SortBySubtask(lst) ==
    IF lst = << >> THEN << >>
    ELSE LET rest == SortBySubtask(SubSeq(lst, 1, Len(lst) - 1))
             x == lst[Len(lst)]
             before == { i \in DOMAIN rest : rest[i].subtask <= x.subtask }
             at == IF before = {} THEN 0
                   ELSE CHOOSE i \in before : \A j \in before : j <= i
         IN  SubSeq(rest, 1, at) \o <<x>> \o SubSeq(rest, at + 1, Len(rest))

\* sorted(): the order of the loops of lines 355-360 over the groups.
TripleLess(a, b) ==
    \/ StrLess(a[1], b[1])
    \/ a[1] = b[1] /\ (StrLess(a[2], b[2]) \/ (a[2] = b[2] /\ StrLess(a[3], b[3])))
RECURSIVE SortTriples(_)
SortTriples(S) ==
    IF S = {} THEN << >>
    ELSE LET m == CHOOSE x \in S : \A y \in S \ {x} : TripleLess(x, y)
         IN  <<m>> \o SortTriples(S \ {m})

\* Lines 365-377: the name of the merged file of a group whose first file
\* is this one.
merged_filename(first, records) ==
    (IF first.prefix # << >> THEN first.prefix \o <<"_">> ELSE << >>)
       \o first.printer_id \o <<"_", "j", "o", "b">> \o first.job_id
       \o <<"_">> \o first.operation \o <<"_">>
       \o sim_time_str(IF first.filename \in DOMAIN records
                       THEN records[first.filename].upload_time ELSE SimNow)

\* The bytes of the parts, one after the other.
RECURSIVE ReadAll(_, _)
ReadAll(file_list, dir) ==
    IF file_list = << >> THEN << >>
    ELSE dir[Head(file_list).filename] \o ReadAll(Tail(file_list), dir)

\* Lines 355-392: the groups merged one after the other, each into the file
\* of its name opened with 'wb'; what the directory holds then, and the names
\* returned.
RECURSIVE MergeJobs(_, _, _, _)
MergedAlso(name, rest) == [dir |-> rest.dir, merged |-> <<name>> \o rest.merged]
MergeWrite(ks, name, bytes, parsed, dir, records) ==
    MergedAlso(name, MergeJobs(ks, parsed, Upsert(dir, name, bytes), records))
MergeFileList(ks, file_list, parsed, dir, records) ==
    MergeWrite(ks, merged_filename(file_list[1], records), ReadAll(file_list, dir),
               parsed, dir, records)
MergeJobs(ks, parsed, dir, records) ==
    IF ks = << >> THEN [dir |-> dir, merged |-> << >>]
    ELSE The({ MergeFileList(Tail(ks), file_list, parsed, dir, records) :
                  file_list \in {SortBySubtask(SimGroup(parsed, Head(ks)))} })

\* merge_job_files on this listing of the decrypted directory.
merge_job_files(parsed, dir, records) ==
    The({ MergeJobs(SortTriples(SimKeysOf(listing)), listing, dir, records) :
             listing \in {parsed} })

\* The locals of run() and the attributes of the object are gone.
SimLocalsGone ==
    /\ sim_pc' = "idle"
    /\ sync_records' = << >>
    /\ remote_files' = {}
    /\ new_files' = << >>
    /\ dec_todo' = << >>
    /\ decrypted_files' = << >>
    /\ merged_files' = << >>

\* __init__, lines 29-31, and load_sync_records, lines 111-119: the records are loaded.
SimStart ==
    /\ sim_pc = "idle"
    /\ sync_records' = sync_record_file
    /\ sim_pc' = "connect"
    /\ UNCHANGED <<sim_remote, local_download_path, decrypt_temp_path,
                   sync_record_file, fernet_key, remote_files, new_files,
                   dec_todo, decrypted_files, merged_files, sim_crashes>>

\* sync_from_server, lines 132-157 and 192-202: the connection and the
\* listing; when either fails [] is returned and run() returns (line 492).
SimConnect ==
    /\ sim_pc = "connect"
    /\ \/ /\ remote_files' = DOMAIN sim_remote
          /\ sim_pc' = "sync"
          /\ UNCHANGED <<sync_records, new_files, dec_todo, decrypted_files,
                         merged_files>>
       \/ SimLocalsGone
    /\ UNCHANGED <<sim_remote, local_download_path, decrypt_temp_path,
                   sync_record_file, fernet_key, sim_crashes>>

\* Lines 162-183: the next listed file. It is downloaded and recorded when
\* it has no record or an older one; an exception of stat or get (a failure
\* of the transfer, the file gone) is printed and the loop goes on.
SimSyncFile ==
    /\ sim_pc = "sync"
    /\ \E filename \in remote_files :
          /\ remote_files' = remote_files \ {filename}
          /\ \E ok \in BOOLEAN :
                IF ok /\ filename \in DOMAIN sim_remote
                   /\ (filename \notin DOMAIN sync_records
                       \/ sync_records[filename].mtime < sim_remote[filename])
                THEN /\ local_download_path' =
                           Upsert(local_download_path, filename, sim_remote[filename])
                     /\ sync_records' =
                           Upsert(sync_records, filename,
                                  [mtime |-> sim_remote[filename],
                                   upload_time |-> sim_remote[filename]])
                     /\ new_files' = Append(new_files, filename)
                ELSE UNCHANGED <<local_download_path, sync_records, new_files>>
    /\ UNCHANGED <<sim_remote, decrypt_temp_path, sync_record_file, fernet_key,
                   sim_pc, dec_todo, decrypted_files, merged_files, sim_crashes>>

\* Lines 188-190 and 491-493: the records are saved and new_files returned;
\* with no new file run() returns.
SimSaveRecords ==
    /\ sim_pc = "sync" /\ remote_files = {}
    /\ sync_record_file' = sync_records
    /\ IF new_files = << >>
       THEN SimLocalsGone
       ELSE /\ sim_pc' = "decrypt"
            /\ dec_todo' = new_files
            /\ UNCHANGED <<sync_records, remote_files, new_files,
                           decrypted_files, merged_files>>
    /\ UNCHANGED <<sim_remote, local_download_path, decrypt_temp_path,
                   fernet_key, sim_crashes>>

\* decrypt_files, lines 210-233: with a key Fernet refuses nothing is
\* decrypted; otherwise the next of the files handed over is decrypted into
\* the decrypted directory, or fails (a wrong key, no file) and is printed.
SimDecryptFile ==
    /\ sim_pc = "decrypt" /\ dec_todo # << >> /\ KeyAccepted(fernet_key)
    /\ LET filename == Head(dec_todo) IN
          IF fernet_key = "right" /\ filename \in DOMAIN local_download_path
          THEN /\ decrypt_temp_path' =
                     Upsert(decrypt_temp_path, filename,
                            SimPlain(filename, local_download_path[filename]))
               /\ decrypted_files' = Append(decrypted_files, filename)
          ELSE UNCHANGED <<decrypt_temp_path, decrypted_files>>
    /\ dec_todo' = Tail(dec_todo)
    /\ UNCHANGED <<sim_remote, local_download_path, sync_record_file, fernet_key,
                   sim_pc, sync_records, remote_files, new_files, merged_files,
                   sim_crashes>>

\* Lines 212-214, 235-236 and 498-500: decrypt_files returns; with nothing
\* decrypted run() returns, otherwise it goes on to wait_for_stable.
SimDecryptReturn ==
    /\ sim_pc = "decrypt"
    /\ dec_todo = << >> \/ ~KeyAccepted(fernet_key)
    /\ IF decrypted_files = << >>
       THEN SimLocalsGone
       ELSE /\ sim_pc' = "wait"
            /\ UNCHANGED <<sync_records, remote_files, new_files, dec_todo,
                           decrypted_files, merged_files>>
    /\ UNCHANGED <<sim_remote, local_download_path, decrypt_temp_path,
                   sync_record_file, fernet_key, sim_crashes>>

\* wait_for_stable, lines 238-250: the sleep is over.
SimWait ==
    /\ sim_pc = "wait"
    /\ sim_pc' = "merge"
    /\ UNCHANGED <<sim_remote, local_download_path, decrypt_temp_path,
                   sync_record_file, fernet_key, sync_records, remote_files,
                   new_files, dec_todo, decrypted_files, merged_files,
                   sim_crashes>>

\* merge_job_files, lines 327-395, and lines 506-510 of run().
SimMerge ==
    /\ sim_pc = "merge"
    /\ \E all_files \in Enumerations(DOMAIN decrypt_temp_path) :
          \E r \in {merge_job_files(ParseAll(all_files), decrypt_temp_path,
                                     sync_records)} :
              /\ decrypt_temp_path' = r.dir
              /\ IF r.merged = << >>
                 THEN SimLocalsGone
                 ELSE /\ merged_files' = r.merged
                      /\ sim_pc' = "convert"
                      /\ UNCHANGED <<sync_records, remote_files, new_files,
                                     dec_todo, decrypted_files>>
    /\ UNCHANGED <<sim_remote, local_download_path, sync_record_file,
                   fernet_key, sim_crashes>>

\* Lines 512-530: convert_to_pdf, whose PDFs in output_path are not followed
\* here, and the end of run().
SimConvert ==
    /\ sim_pc = "convert"
    /\ SimLocalsGone
    /\ UNCHANGED <<sim_remote, local_download_path, decrypt_temp_path,
                   sync_record_file, fernet_key, sim_crashes>>

\* The process is killed between two steps.
SimCrash ==
    /\ sim_pc # "idle" /\ sim_crashes < MaxSimCrashes
    /\ sim_crashes' = sim_crashes + 1
    /\ SimLocalsGone
    /\ UNCHANGED <<sim_remote, local_download_path, decrypt_temp_path,
                   sync_record_file, fernet_key>>

\* A file is uploaded to the server, new or again with a later mtime.
SimUpload ==
    /\ \E n \in SimNames, i \in DOMAIN SimMtimes :
          /\ n \in DOMAIN sim_remote => sim_remote[n] < SimMtimes[i]
          /\ sim_remote' = Upsert(sim_remote, n, SimMtimes[i])
    /\ UNCHANGED <<local_download_path, decrypt_temp_path, sync_record_file,
                   fernet_key, sim_pc, sync_records, remote_files, new_files,
                   dec_todo, decrypted_files, merged_files, sim_crashes>>

\* The operator writes another fernet_key into config.json between two runs.
SimSetKey ==
    /\ sim_pc = "idle"
    /\ \E k \in SimKeys \ {fernet_key} : fernet_key' = k
    /\ UNCHANGED <<sim_remote, local_download_path, decrypt_temp_path,
                   sync_record_file, sim_pc, sync_records, remote_files,
                   new_files, dec_todo, decrypted_files, merged_files,
                   sim_crashes>>

\* What the process does by itself.
SimSteps ==
    \/ SimStart \/ SimConnect \/ SimSyncFile \/ SimSaveRecords
    \/ SimDecryptFile \/ SimDecryptReturn \/ SimWait \/ SimMerge \/ SimConvert

SimNext == SimSteps \/ SimCrash \/ SimUpload \/ SimSetKey

NextSim ==
    SimNext /\ UNCHANGED <<envVars, syncVars, waitVars, mergeVars, groupVars,
                           convVars, runVars, peerVars>>

\* simaudit.py run after run.
SpecSim == Init /\ [][NextSim]_vars

\* The same, every step the process can take by itself being taken in the
\* end; uploads, key changes and kills happen or not.
SpecSimFair ==
    SpecSim
       /\ WF_vars(SimSteps /\ UNCHANGED <<envVars, syncVars, waitVars, mergeVars,
                                           groupVars, convVars, runVars,
                                           peerVars>>)

\* ------------------------------------------------------------------ merge properties

\* The group keys in the order the loop of line 333 takes them, and the
\* group the i-th output of this call was written for.
KeyOfOutput(i) == sorted(DOMAIN groups)[i]

\* The name the group at hand gets before line 352 looks for a free one.
OutPathNow ==
    out_path(CurrentKey, groups[CurrentKey], remote_meta, mtime_policy)

\* The i-th name of the sequence out, out_1, out_2, ...
Candidate(out, i) == IF i = 0 THEN out ELSE Suffixed(out, i)

\* C12: merge_groups never overwrites or modifies a file of the output
\* directory: over every step of every merge run, whatever the inputs and
\* the metadata, each file the output directory holds is still there
\* afterwards with the same bytes.
C12_NeverOverwrites ==
    [][\A p \in DOMAIN dst_dir :
          p \in DOMAIN dst_dir' /\ dst_dir'[p] = dst_dir[p]]_vars

\* C12, witness: a second merge of a group has found the artifact of the
\* first in its way and has written other bytes next to it.
C12_Witness ==
    /\ mpc = "done" /\ merges = 2
    /\ \E i \in DOMAIN outputs, p \in DOMAIN dst_dir :
          /\ outputs[i] = Suffixed(p, 1)
          /\ dst_dir[outputs[i]] # dst_dir[p]

\* C13: each merge writes to the first name of the sequence key_ts,
\* key_ts_1, key_ts_2, ... that the output directory does not hold yet, so
\* that merging a group k+1 times with the same metadata leaves the k+1
\* artifacts key_ts, key_ts_1, ..., key_ts_k.
C13_FirstFreeName ==
    /\ mpc = "write" =>
          \E k \in 0..Cardinality(DOMAIN dst_dir) :
             /\ final_path = Candidate(OutPathNow, k)
             /\ final_path \notin DOMAIN dst_dir
             /\ \A j \in 0..(k - 1) : Candidate(OutPathNow, j) \in DOMAIN dst_dir
    /\ \A p \in DOMAIN dst_dir :
          \A k \in 1..MaxMerges :
             Suffixed(p, k) \in DOMAIN dst_dir =>
                \A j \in 1..(k - 1) : Suffixed(p, j) \in DOMAIN dst_dir

\* C13, witness: the second merge of a group with metadata is about to
\* write key_ts_1, key_ts being there.
C13_Witness ==
    /\ mpc = "write"
    /\ PartMtimes(groups[CurrentKey], remote_meta) # {}
    /\ OutPathNow \in DOMAIN dst_dir
    /\ final_path = Suffixed(OutPathNow, 1)

\* The parts of a group, as a set.
PartSet(k) == { groups[k][i] : i \in DOMAIN groups[k] }

\* No two parts of the group have the same sequence number.
DistinctSeqs(k) ==
    \A i, j \in DOMAIN groups[k] : groups[k][i].seq = groups[k][j].seq => i = j

\* The bytes of a set of parts with distinct sequence numbers, the part with
\* the smallest number first.
RECURSIVE AscendingBytes(_)
AscendingBytes(parts) ==
    IF parts = {} THEN << >>
    ELSE LET first == CHOOSE p \in parts : \A q \in parts : p.seq <= q.seq
         IN  src_dir[first.name] \o AscendingBytes(parts \ {first})

\* C14: the artifact of a group whose parts have distinct sequence numbers
\* and were all read is exactly the bytes of its parts in ascending numeric
\* order of their sequence numbers, nothing before, between or behind them,
\* in whatever order the directory was listed.
C14_ConcatenatedInSeqOrder ==
    \A i \in DOMAIN outputs :
       LET k == KeyOfOutput(i) IN
       (DistinctSeqs(k) /\ \A p \in PartSet(k) : p.name \notin unread) =>
          dst_dir[outputs[i]] = AscendingBytes(PartSet(k))

\* C14, witness: an artifact made of the part with seq 2 followed by the
\* part with seq 10 (whose name sorts before the other's as a string).
C14_Witness ==
    \E i \in DOMAIN outputs :
       /\ unread = {}
       /\ \E p, q \in PartSet(KeyOfOutput(i)) :
             /\ p.seq = 2 /\ q.seq = 10 /\ StrLess(q.name, p.name)
             /\ dst_dir[outputs[i]] = src_dir[p.name] \o src_dir[q.name]

\* ------------------------------------------------------------------ grouping properties

\* The naming grammar <sequence><hostId>_ctrl_<jobId>_<opaqueId>-<operationType>
\* with the character classes of line 295: the ways to cut a name into
\* digits, letters-or-digits, "_ctrl_", letters-or-digits, "_", digits, "-",
\* digits, every field non-empty. <<a, b, c, d>> are the last positions of
\* the sequence, the host, the job and the opaque id.
SeqEnds(n) == 1..DigitPrefix(n)
HostEnds(n, a) ==
    { b \in (a + 1)..(Len(n) - 6) :
         /\ AllAlnum(SubSeq(n, a + 1, b))
         /\ SubSeq(n, b + 1, b + 6) = <<"_", "c", "t", "r", "l", "_">> }
JobEnds(n, b) ==
    { c \in (b + 7)..(Len(n) - 1) :
         AllAlnum(SubSeq(n, b + 7, c)) /\ n[c + 1] = "_" }
IdEnds(n, c) ==
    { d \in (c + 2)..(Len(n) - 2) :
         /\ AllDigits(SubSeq(n, c + 2, d)) /\ n[d + 1] = "-"
         /\ AllDigits(SubSeq(n, d + 2, Len(n))) }
Cuts4(n) ==
    UNION { UNION { UNION { { <<a, b, c, d>> : d \in IdEnds(n, c) } :
                               c \in JobEnds(n, b) } :
                       b \in HostEnds(n, a) } :
               a \in SeqEnds(n) }

\* Cuts4 of every name of GroupNames, computed once.
CutsOfName == [n \in GroupNames |-> Cuts4(n)]
CutsOf(n) == IF n \in GroupNames THEN CutsOfName[n] ELSE Cuts4(n)

\* The name matches the grammar.
InGrammar(n) == CutsOf(n) # {}

\* The fields of a matching name, the sequence number taking as many digits
\* as it can.
Fields(n) ==
    LET cut == CHOOSE c \in CutsOf(n) : \A o \in CutsOf(n) : o[1] <= c[1]
    IN  [sequence |-> SubSeq(n, 1, cut[1]),
         hostId |-> SubSeq(n, cut[1] + 1, cut[2]),
         jobId |-> SubSeq(n, cut[2] + 7, cut[3]),
         operationType |-> SubSeq(n, cut[4] + 2, Len(n))]

\* The names listed, and the groups a name is in.
Listed == { listdir[i] : i \in DOMAIN listdir }
GroupsOf(n) == { k \in DOMAIN groups : \E p \in PartSet(k) : p.name = n }

\* C15: in every group group_decrypted_parts returns, whatever the names of
\* the directory, no two parts have the same sequence number.
C15_UniqueSeqInGroup ==
    mpc = "grouped" => \A k \in DOMAIN groups : DistinctSeqs(k)

C17_GroupedByHostJobType ==
    mpc = "grouped" =>
       \A a, b \in { n \in Listed : InGrammar(n) } :
          /\ Cardinality(GroupsOf(a)) = 1
          /\ (GroupsOf(a) = GroupsOf(b)) <=>
                /\ Fields(a).hostId = Fields(b).hostId
                /\ Fields(a).jobId = Fields(b).jobId
                /\ Fields(a).operationType = Fields(b).operationType

\* C17, witness: a directory with every name of GroupNames has been grouped
\* into three groups, one of them with three parts.
C17_Witness ==
    /\ mpc = "grouped" /\ Listed = GroupNames
    /\ Cardinality(DOMAIN groups) = 3
    /\ \E k \in DOMAIN groups : Len(groups[k]) = 3

\* ------------------------------------------------------------------ name properties

\* The recorded modification times of the parts of a group that have
\* metadata.
RecordedTimes(k) ==
    { remote_meta[p.name].mtime : p \in { q \in PartSet(k) : q.name \in DOMAIN remote_meta } }

\* path is base, or base with a suffix _1, _2, ...
IsBaseOrSuffixed(path, base) ==
    path = base \/ \E i \in 1..MaxMerges : path = Suffixed(base, i)

\* C18: the output name of a group is the group key alone when no part of
\* the group has metadata; otherwise it is the group key, "_" and the
\* timestamp of the largest (policy max) or smallest (policy min) recorded
\* modification time of the parts of that group that have metadata (then, in
\* either case, a suffix _i when the name is taken).
C18_TimestampFromPartMtimes ==
    mpc = "write" =>
       LET times == RecordedTimes(CurrentKey) IN
       IF times = {} THEN IsBaseOrSuffixed(final_path, CurrentKey)
       ELSE \E e \in times :
               /\ mtime_policy = "max" => \A t \in times : t <= e
               /\ mtime_policy = "min" => \A t \in times : e <= t
               /\ IsBaseOrSuffixed(final_path,
                     CurrentKey \o <<"_">> \o beijing_timestamp_from_utc_epoch(e))

\* C18, witness: both policies have named a group whose two parts have
\* different recorded times, and a group without metadata has been named
\* while another group had some.
C18_Witness ==
    /\ mpc = "write" /\ merges = 2 /\ mtime_policy = "min"
    /\ Cardinality(RecordedTimes(CurrentKey)) = 2
    /\ \E p \in DOMAIN dst_dir : Len(p) > Len(CurrentKey) + 14 /\ p # final_path
    /\ \E p \in DOMAIN dst_dir : Len(p) < 8

\* The fields of a timestamp YYYYmmddHHMMSS.
StampFields(ts) ==
    [year |-> int(SubSeq(ts, 1, 4)), month |-> int(SubSeq(ts, 5, 6)),
     day |-> int(SubSeq(ts, 7, 8)), hour |-> int(SubSeq(ts, 9, 10)),
     minute |-> int(SubSeq(ts, 11, 12)), second |-> int(SubSeq(ts, 13, 14))]

\* The days from 1970-01-01 to a date of the Gregorian calendar.
DaysFromCivil(y, m, d) ==
    LET yy  == IF m <= 2 THEN y - 1 ELSE y
        era == yy \div 400
        yoe == yy - era * 400
        doy == (153 * (IF m > 2 THEN m - 3 ELSE m + 9) + 2) \div 5 + d - 1
        doe == yoe * 365 + yoe \div 4 - yoe \div 100 + doy
    IN  era * 146097 + doe - 719468

\* The seconds from 1970-01-01T00:00:00 to the date-time a timestamp spells.
SecondsOfStamp(ts) ==
    LET f == StampFields(ts)
    IN  DaysFromCivil(f.year, f.month, f.day) * 86400
           + f.hour * 3600 + f.minute * 60 + f.second

\* The timestamp in the output name chosen for the group at hand.
StampNow ==
    SubSeq(final_path, Len(CurrentKey) + 2, Len(CurrentKey) + 15)

\* C19: the timestamp of an output name spells, as year, month, day, hour,
\* minute and second, the date-time exactly 8 hours after the reference
\* epoch read as UTC, across the change of day, month and year; the epoch
\* of 2024-01-01T23:30:00Z gives 20240102073000.
C19_StampIsUtcPlusEight ==
    (mpc = "write" /\ RecordedTimes(CurrentKey) # {}) =>
       LET f == StampFields(StampNow) IN
       /\ Len(StampNow) = 14 /\ AllDigits(StampNow)
       /\ f.month \in 1..12 /\ f.day \in 1..31 /\ f.hour \in 0..23
       /\ f.minute \in 0..59 /\ f.second \in 0..59
       /\ \E e \in RecordedTimes(CurrentKey) :
             SecondsOfStamp(StampNow) = e + 8 * 3600
       /\ RecordedTimes(CurrentKey) = {1704151800} =>
             StampNow = <<"2", "0", "2", "4", "0", "1", "0", "2",
                          "0", "7", "3", "0", "0", "0">>

\* C19, witness: names have been stamped from 2024-01-01T23:30:00Z (the
\* next day in UTC+8) and from 2024-12-31T16:00:00Z (the next year).
C19_Witness ==
    /\ mpc = "write" /\ mtime_policy = "max"
    /\ 1735660800 \in RecordedTimes(CurrentKey)
    /\ StampFields(StampNow).year = 2025
    /\ \E p \in DOMAIN dst_dir :
          Len(p) >= 20 /\ SubSeq(p, 7, 20) = <<"2", "0", "2", "4", "0", "1", "0", "2",
                               "0", "7", "3", "0", "0", "0">>

\* The bytes of a set of parts, the smallest sequence number first, a part
\* in the domain of cut giving only its first cut[name] bytes.
RECURSIVE AscendingBytesCut(_, _)
AscendingBytesCut(parts, cut) ==
    IF parts = {} THEN << >>
    ELSE LET first == CHOOSE p \in parts : \A q \in parts : p.seq <= q.seq
             bytes == src_dir[first.name]
         IN  (IF first.name \in DOMAIN cut THEN SubSeq(bytes, 1, cut[first.name])
              ELSE bytes) \o AscendingBytesCut(parts \ {first}, cut)

\* C20: a part that cannot be read stops neither its group nor the others:
\* when merge_groups returns, every group has its artifact, written and in
\* the returned list, and each artifact is the bytes of the parts that were
\* read, whole and in sequence order, with at most a beginning of a part
\* whose read failed in its place.
C20_ReadFailureSkipsOnlyThePart ==
    mpc = "done" =>
       /\ Len(outputs) = Cardinality(DOMAIN groups)
       /\ \A i \in DOMAIN outputs :
             LET parts == PartSet(KeyOfOutput(i))
                 bad == { p.name : p \in parts } \cap unread IN
             /\ outputs[i] \in DOMAIN dst_dir
             /\ \E cut \in [bad -> 0..2] :
                   /\ \A n \in bad : cut[n] < Len(src_dir[n])
                   /\ dst_dir[outputs[i]] = AscendingBytesCut(parts, cut)

\* C20, witness: merge_groups has returned two artifacts after failing to
\* read the first part of the first group; that artifact holds the bytes of
\* the group's other part.
C20_Witness ==
    /\ mpc = "done" /\ Len(outputs) = 2
    /\ \E p, q \in PartSet(KeyOfOutput(1)) :
          /\ p.seq < q.seq /\ p.name \in unread /\ q.name \notin unread
          /\ dst_dir[outputs[1]] = src_dir[q.name]
    /\ dst_dir[outputs[2]] # << >>

\* ------------------------------------------------------------------ the run command: properties

\* The names of a list.
Range(lst) == { lst[i] : i \in DOMAIN lst }

\* C21: a failure for one item does not stop the loop it is in. When the
\* loop of run_sync_decrypt is over, every item of the listing whose own
\* transfer did not fail is on the fetched record with its file, and every
\* one whose own transfer and decryption did not fail is on the decrypted
\* record with its file, whatever failed for the others; when the conversion
\* loop of main is over, try_convert_stream has returned for every artifact
\* merge_groups returned, whatever it returned for the others.
C21_FailureDoesNotStopTheLoop ==
    /\ pc \in {"replace", "done"} =>
          \A n \in DOMAIN current_files :
             /\ n \notin calls.xfail => DownloadRecorded(n)
             /\ n \notin (calls.xfail \cup calls.dfail) => DecryptRecorded(n)
    /\ cpc = "done" => Range(outputs) \subseteq DOMAIN results

\* C21, witness: the run command is at its end; the transfer of one listed
\* item failed and another item was fetched and decrypted, and the
\* conversion of the first of two artifacts failed and the second was
\* converted.
C21_Witness ==
    /\ pc = "merge" /\ cpc = "done"
    /\ prev.end = "failed"
    /\ \E n, m \in DOMAIN metaFile :
          /\ dlDir[n] # "full" /\ n \notin histDl
          /\ m \in histDl /\ m \in histDec /\ decDir[m] = "full"
    /\ Len(outputs) = 2
    /\ results[outputs[1]] = "false"
    /\ results[outputs[2]] = "true"

\* C25: a run command that ends at start-up (the key is refused, the
\* connection fails) has done nothing: the step that ends it leaves the
\* local files, the two records and the metadata file as they were, no
\* sftp.get and no decrypt was issued, and nothing of the merge or of the
\* conversion has happened in it: of the run commands so far, those that
\* ended at start-up called no merge_groups.
C25_AbortBeforeAnyWork ==
    [][ /\ aborts' # aborts =>
             /\ Disk' = Disk /\ metaTmp' = metaTmp
             /\ calls' = NoCalls /\ pc' = "idle"
             /\ UNCHANGED <<src_dir, dst_dir, merges, mpc, converted_dir, cpc>>
        /\ merges' + aborts' <= runs' ]_vars

\* C25, witness: the one run command ended at start-up, with items listed
\* on the remote and a part in the decrypted directory; nothing is on record
\* and nothing is merged.
C25_Witness ==
    /\ aborts = 1 /\ runs = 1 /\ pc = "idle"
    /\ DOMAIN remote = Names
    /\ \E n \in DOMAIN src_dir : pattern_match(n) # NoMatch
    /\ histDl = {} /\ histDec = {} /\ metaFile = EmptyMap
    /\ merges = 0 /\ dst_dir = << >>

\* C29: the two stages keep to their own files. A step of merge_groups
\* leaves the fetched record, the decrypted record, the metadata file and the
\* metadata map it was given, and every file of the download and of the
\* decrypted directory as they are; a step of run_sync_decrypt leaves the
\* merge output directory as it is.
C29_StagesKeepApart ==
    [][ /\ (mpc' # mpc /\ mpc' # "idle") =>
             UNCHANGED <<histDl, histDec, metaFile, remote_meta, src_dir,
                         decDir, dlDir>>
        /\ pc # "merge" => dst_dir' = dst_dir ]_vars

\* C29, witness: in a run command that fetched and decrypted an item,
\* merge_groups has written an artifact from a part of the decrypted
\* directory.
C29_Witness ==
    /\ pc = "merge" /\ mpc = "done"
    /\ \E n \in Names : n \in histDec /\ decDir[n] = "full" /\ n \in DOMAIN metaFile
    /\ Len(outputs) >= 1
    /\ \A i \in DOMAIN outputs : outputs[i] \in DOMAIN dst_dir
    /\ \E n \in DOMAIN src_dir : pattern_match(n) # NoMatch

\* ------------------------------------------------------------------ failures and retries

\* C22: an item whose decryption failed is not decrypted again without an
\* operator: the loop is never again at the decryption of an item that
\* failed in this run, and the run that follows a run in which the
\* decryption of an item failed, with the same key and the same listing, the
\* local files being as that run left them, issues no decrypt call for it.
C22_FailedDecryptNotRetried ==
    /\ \A n \in calls.dfail : ~(pc \in {"dec", "dec_rec"} /\ cur = n)
    /\ (InRun /\ prev.end = "failed" /\ key = prev.key /\ current_files = remote) =>
          \A n \in prev.dfail : n \notin calls.decrypt

\* ------------------------------------------------------------------ the gate

\* C26: the stability detector gates the loop: until wait_for_remote_stable
\* has returned, no sftp.get and no decrypt call has been issued and the
\* local state directory is as the run found it; afterwards the run
\* transfers and decrypts items of the returned listing only, and the files
\* and records of every other name stay as they were.
C26_OnlyListedItemsAfterWait ==
    /\ pc \in {"idle", "wait"} => calls = NoCalls
    /\ pc = "wait" => Disk = start
    /\ calls.fetch \cup calls.decrypt \subseteq DOMAIN current_files
    /\ pc \in {"dl", "dl_rec", "dec", "dec_rec"} => cur \in DOMAIN current_files
    /\ InRun =>
          \A n \in Names \ DOMAIN current_files :
             /\ dlDir[n] = start.dlDir[n] /\ decDir[n] = start.decDir[n]
             /\ (n \in histDl <=> n \in start.histDl)
             /\ (n \in histDec <=> n \in start.histDec)

\* C26, witness: a run has transferred and decrypted the one item of the
\* listing it was handed and is over; an item of an earlier run that the
\* listing no longer has is on the fetched record.
C26_Witness ==
    /\ pc = "done" /\ calls.fetch # {} /\ calls.decrypt # {}
    /\ \E n \in Names \ DOMAIN current_files : n \in histDl

\* ------------------------------------------------------------------ metadata is kept

\* C28: no step of the fetch-decrypt stage removes an entry of
\* remote_file_meta.json: every name that has an entry has one after the
\* step, the entry of a name the current listing does not have is the same
\* after the step, and when a run completes every name of its listing has
\* an entry. So the names of every completed run keep their metadata.
C28_MetaNeverRemoved ==
    [][/\ \A n \in DOMAIN metaFile :
             /\ n \in DOMAIN metaFile'
             /\ n \notin DOMAIN current_files => metaFile'[n] = metaFile[n]
       /\ pc' = "done" =>
             \A n \in DOMAIN current_files : n \in DOMAIN metaFile']_vars

\* C28, witness: a run over a listing of one item has saved the metadata, and
\* the file still has the entry of a name that listing does not have.
C28_Witness ==
    /\ pc = "done" /\ current_files # EmptyMap
    /\ \E n \in DOMAIN metaFile : n \notin DOMAIN current_files

\* ------------------------------------------------------------------ resuming

\* C30: the run after an interruption that left an item on the fetched
\* record with its file whole and not on the decrypted record, the listing
\* still having the item, does not transfer the item again and calls
\* decrypt for it, which succeeds with the right key.
C30_FetchedItemOnlyDecrypted ==
    (prev.end = "crash" /\ InRun) =>
       \A n \in Processed :
          (n \in start.histDl /\ n \notin start.histDec /\ start.dlDir[n] = "full") =>
             /\ n \notin calls.fetch
             /\ n \in calls.decrypt
             /\ key = "right" => n \notin calls.dfail

\* ------------------------------------------------------------------ order of the outputs

\* a comes before b in lexicographic order of the code points: they agree up
\* to a position where a has ended or has the smaller character.
LexBefore(a, b) ==
    \E i \in 1..Len(b) :
       /\ Len(a) >= i - 1
       /\ SubSeq(a, 1, i - 1) = SubSeq(b, 1, i - 1)
       /\ (Len(a) = i - 1 \/ Ord(a[i]) < Ord(b[i]))

\* The groups an output name can be of: the name is the group key, or the
\* group key with "_" and more behind it.
GroupsOfOutput(path) ==
    { k \in DOMAIN groups :
         \/ path = k
         \/ Len(path) > Len(k) /\ SubSeq(path, 1, Len(k) + 1) = k \o <<"_">> }

\* C27: the list merge_groups returns has one output per group, the outputs
\* in ascending lexicographic order of their group keys, in whatever order
\* the directory was listed: each output written so far is of exactly one
\* group, an earlier output is of a group key that comes before the group
\* key of every later one, and on return every group has its output.
C27_OutputsInKeyOrder ==
    mpc \in {"loop", "write", "done"} =>
       /\ \A i \in DOMAIN outputs : Cardinality(GroupsOfOutput(outputs[i])) = 1
       /\ \A i, j \in DOMAIN outputs :
             i < j => \A a \in GroupsOfOutput(outputs[i]) :
                         \A b \in GroupsOfOutput(outputs[j]) : LexBefore(a, b)
       /\ mpc = "done" =>
             /\ Len(outputs) = Cardinality(DOMAIN groups)
             /\ \A k \in DOMAIN groups :
                   \E i \in DOMAIN outputs : k \in GroupsOfOutput(outputs[i])

\* C27, witness: merge_groups has returned the output of h-j-1, made of two
\* parts and named with a timestamp, before the output of h-k-1.
C27_Witness ==
    /\ mpc = "done" /\ Len(outputs) = 2
    /\ Len(dst_dir[outputs[1]]) = 4 /\ Len(outputs[1]) > 8
    /\ GroupsOfOutput(outputs[2]) = { <<"h", "-", "k", "-", "1">> }

\* ------------------------------------------------------------------ conversion properties

\* The first list is the second with some of its elements left out.
RECURSIVE IsSubSeq(_, _)
IsSubSeq(a, b) ==
    IF a = << >> THEN TRUE
    ELSE IF b = << >> THEN FALSE
    ELSE IF Head(a) = Head(b) THEN IsSubSeq(Tail(a), Tail(b))
    ELSE IsSubSeq(a, Tail(b))

\* C23: try_convert_stream returns True if and only if a candidate it ran
\* exited with status 0 with a non-empty output at the expected path; the
\* candidates are run in their priority order; a candidate that exits with
\* status 0 without having written a non-empty output is not the one the
\* call succeeds by; and the candidate the call succeeds by is the last one
\* it runs.
C23_TrueIffZeroExitAndOutput ==
    /\ cpc = "ret" =>
          /\ conv_result = "true" <=>
                \E t \in DOMAIN exits : exits[t].rc = 0 /\ exits[t].there
          /\ conv_result = "true" =>
                LET t == invoked[Len(invoked)]
                IN  exits[t].rc = 0 /\ exits[t].wrote = "nonempty"
    /\ cpc \in {"try", "running", "ret"} =>
          /\ \E kind \in StreamKinds :
                IsSubSeq(invoked, candidates(kind, conv_tool))
          /\ \A i \in 1..(Len(invoked) - 1) :
                ~(exits[invoked[i]].rc = 0 /\ exits[invoked[i]].there)

\* C24: a converter that does not exit is given up: whenever
\* try_convert_stream is waiting for a converter process, it eventually is
\* not any more (the candidate has been counted as failed, or as the
\* success it was), whether the process exits or not.
C24_HungConverterGivenUp == (cpc = "running") ~> (cpc # "running")

\* ------------------------------------------------------------------ the returned listing

\* C32: when wait_for_remote_stable returns because the two samples of a
\* round matched, the listing it returns has the item count and the total
\* size of those samples.
C32_ReturnedListingIsTheStableOne ==
    wpc = "ret_stable" => get_remote_status(result) = snap2

\* ------------------------------------------------------------------ what is merged

\* C31: every part whose bytes are in a merged artifact is on the decrypted
\* record: of the files decrypt_if_needed wrote into the decrypted directory
\* (those that were not there from the start), merge_groups has merged only
\* the recorded ones.
C31_OnlyRecordedPartsMerged ==
    \A i \in DOMAIN outputs :
       \A p \in PartSet(KeyOfOutput(i)) :
          (p.name \notin DOMAIN FilesAtStart /\ p.name \notin unread) =>
             p.name \in histDec

\* ------------------------------------------------------------------ merges at the same time

\* The output paths an invocation has chosen: those it has written and the
\* one it is about to open.
ChosenPaths(m) ==
    Range(m.outputs) \cup (IF m.mpc = "write" THEN {m.final_path} ELSE {})

\* C33: two invocations of merge_groups that run at the same time over one
\* output directory never choose the same path, so neither writes over an
\* artifact of the other.
C33_ConcurrentMergesKeepApart ==
    ChosenPaths([mpc |-> mpc, final_path |-> final_path, outputs |-> outputs])
       \cap ChosenPaths(peer) = {}


\* ------------------------------------------------------------------ simaudit.py: merged files

\* A file of the decrypted directory that merge_job_files wrote: the parts
\* are the names parse_filename accepts.
IsMergedFile(n) == parse_filename(n) = NotParsed

\* C34: merge_job_files never overwrites a merged file of an earlier run:
\* every file it returns is a file the directory did not hold before, and
\* the bytes of the merged files the directory held stay as they were.
C34_MergedFilesAreNotOverwritten ==
    [][/\ (sim_pc = "merge" /\ sim_pc' = "convert")
            => \A i \in DOMAIN merged_files' :
                  merged_files'[i] \notin DOMAIN decrypt_temp_path
       /\ \A n \in DOMAIN decrypt_temp_path :
             IsMergedFile(n)
                => /\ n \in DOMAIN decrypt_temp_path'
                   /\ decrypt_temp_path'[n] = decrypt_temp_path[n]]_vars


\* ------------------------------------------------------------------ simaudit.py: recorded files

\* C35: every file that sync_from_server recorded in the saved sync records
\* is decrypted in the end, by the run that recorded it or by a later one,
\* unless the key is changed to one that is not the right one.
C35_RecordedFilesGetDecrypted ==
    \A n \in SimNames :
       (n \in DOMAIN sync_record_file /\ fernet_key = "right")
          ~> (n \in DOMAIN decrypt_temp_path \/ fernet_key # "right")

====
